---- MODULE Spec2Model ----
(***************************************************************************)
(* Remote-scan engine of the Stripe, Airtable and ClickHouse foreign data  *)
(* wrappers: pushdown planning, the pagination loop of begin_scan, the     *)
(* row buffer drained by iter_scan, and end_scan.                          *)
(*                                                                         *)
(* Spec: one scan session of one connector.  The remote service is the     *)
(* environment: every transport call is answered by a response chosen      *)
(* among the answers the remote can give.  report_error records the error  *)
(* and returns to the statement that follows it in the source.             *)
(* SpecSession: a session (scan, insert or update of StripeFdw and         *)
(* AirtableFdw, with the retry layer of the client unfolded into its       *)
(* attempts; begin_modify, insert and update of ClickHouseFdw).            *)
(* SpecShared: two Stripe sessions that share the persisted request_cnt.   *)
(* SpecLive: the fetch loops under weak fairness of their iterations.      *)
(* SpecMapper: body_to_rows on pages of JSON objects.                      *)
(* SpecRescan: begin_scan called again on the instance of a session.       *)
(* SpecCell: field_to_cell of ClickHouseFdw on values of each column type. *)
(***************************************************************************)
EXTENDS Integers, Sequences, FiniteSets, TLC

VARIABLES
    fdw,          \* connector of the session: "stripe", "airtable", "clickhouse"
    pc,           \* "new", "loop" (inside begin_scan's fetch loop), "scanned", "closed",
                  \* "insert", "update" (inside the POST of the call), "modify"
                  \* (after begin_modify), "modified"
    client,       \* Option<client>: None or Some("client")
    scan_result,  \* Option<Vec<Row>> of StripeFdw / AirtableFdw
    args,         \* arguments of the current begin_scan call
    loc,          \* local variables of the begin_scan call in progress
    request_cnt,  \* persisted stats metadata 'request_cnt' of StripeFdw
    requests,     \* observation: requests sent to the remote by this scan, in order
    fetched,      \* observation: rows of all pages received by this scan, in arrival order
    delivered,    \* observation: rows handed to the caller by iter_scan, in order
    answers,      \* observation: the remote's answers to the requests of this scan
    ch,           \* fields of ClickHouseFdw: client, table, rowid_col, tgt_cols,
                  \* scan_blk, row_idx, params
    err,          \* observation: begin_scan reported an error
    iter_err,     \* observation: an iter_scan call reported an error
    ret,          \* observation: result of the last iter_scan call
    attempts,     \* retry layer of the client: per transport call, the attempts made
    ins,          \* the mutation call of the session: its row and the body built from it
    sess,         \* concurrent Stripe sessions that share the persisted request_cnt
    page,         \* the page body_to_rows was last applied to, and the rows it made
    conv,         \* the remote value field_to_cell was last applied to, and its cell
    row_out,      \* observation: the cells the last ClickHouseFdw::iter_scan call
                  \* pushed on the row it was handed
    scan_no       \* observation: number of the begin_scan call of the session

vars == <<fdw, pc, client, scan_result, args, loc, request_cnt, ch,
          requests, fetched, delivered, answers, err, iter_err, ret,
          attempts, ins, sess, page, conv, row_out, scan_no>>

----------------------------------------------------------------------------
(* Option<T> is a sequence of length at most one. *)
None == <<>>
Some(x) == <<x>>

(* Bound of the model: the remote lets a scan continue for at most this    *)
(* many requests; the answer to the last one ends the scan.                *)
MaxRequests == 2

(* Row counts of the pages the remote answers with. *)
PageRows == {0, 5, 100}

(* let page_size = 100;  maximum page size limit for Stripe API *)
page_size == 100

(* i64::MAX, the page count of a scan without limit (scaled to the        *)
(* integer range of the model checker).                                    *)
I64_MAX == 2147483647

----------------------------------------------------------------------------
(* Cells and quals.  A value is a cell [t, v] with its type tag and its    *)
(* text, or an array (t = "Array").                                        *)
StrCell(s) == [t |-> "String", v |-> s]
I64Cell(s) == [t |-> "I64", v |-> s]
BoolCell(s) == [t |-> "Bool", v |-> s]
ArrayValue == [t |-> "Array", v |-> ""]

IsCell(value) == value.t /= "Array"

Qual(f, op, val, or) == [field |-> f, operator |-> op, value |-> val, use_or |-> or]

(* Quals lists handed to begin_scan. *)
QualLists ==
    { <<>>,
      <<Qual("id", "=", StrCell("acct_123"), FALSE)>>,
      <<Qual("id", "=", I64Cell("123"), FALSE)>>,
      <<Qual("id", "=", StrCell("acct_123"), TRUE)>>,
      <<Qual("id", "<", StrCell("acct_123"), FALSE)>>,
      <<Qual("id", "=", ArrayValue, FALSE)>>,
      <<Qual("email", "=", StrCell("a@b.c"), FALSE)>>,
      <<Qual("id", "=", StrCell("acct_123"), FALSE),
        Qual("email", "=", StrCell("a@b.c"), FALSE)>> }

(* Limit { offset, count }, both non-negative. *)
Limit(o, c) == [offset |-> o, count |-> c]
Limits == { None, Some(Limit(0, 0)), Some(Limit(10, 0)),
            Some(Limit(10, 5)), Some(Limit(95, 5)) }

(* The 'object' table option of a Stripe foreign table (None: missing). *)
StripeObjects == { None, Some("accounts"), Some("customers"),
                   Some("balance"), Some("nosuch") }

----------------------------------------------------------------------------
(* Stripe: pushdown planner *)

QualMatchesField(qual, field) ==
    qual.field = field /\ qual.operator = "=" /\ ~qual.use_or

RECURSIVE FieldPairs(_, _)
FieldPairs(qual, fields) ==
    IF fields = <<>> THEN <<>>
    ELSE (IF QualMatchesField(qual, Head(fields)) /\ IsCell(qual.value)
             /\ qual.value.t \in {"Bool", "String"}
          THEN << <<Head(fields), qual.value.v>> >>
          ELSE <<>>)
         \o FieldPairs(qual, Tail(fields))

RECURSIVE QualPairs(_, _)
QualPairs(quals, fields) ==
    IF quals = <<>> THEN <<>>
    ELSE FieldPairs(Head(quals), fields) \o QualPairs(Tail(quals), fields)

IsPointLookup(quals) ==
    /\ Len(quals) = 1
    /\ quals[1].field = "id"
    /\ quals[1].operator = "="
    /\ ~quals[1].use_or
    /\ quals[1].value.t = "String"

PaginationPairs(obj, ps, cursor) ==
    IF obj /= "balance"
    THEN << <<"limit", ToString(ps)>> >>
         \o (IF cursor /= None THEN << <<"starting_after", cursor[1]>> >> ELSE <<>>)
    ELSE <<>>

(* a slip in the fast path: the return after set_query(None) is missing *)
pushdown_quals_no_return(url, obj, quals, fields, ps, cursor) ==
    LET u == IF IsPointLookup(quals)
             THEN [path |-> Append(url.path, quals[1].value.v), query |-> <<>>]
             ELSE url
    IN  [path |-> u.path,
         query |-> u.query \o QualPairs(quals, fields)
                           \o PaginationPairs(obj, ps, cursor)]

pushdown_quals(url, obj, quals, fields, ps, cursor) ==
    IF IsPointLookup(quals)
    THEN [path |-> Append(url.path, quals[1].value.v), query |-> <<>>]
    ELSE [path |-> url.path,
          query |-> url.query \o QualPairs(quals, fields)
                              \o PaginationPairs(obj, ps, cursor)]

(* a slip: an object that is not implemented is planned as a plain list *)
ObjectFields_any(obj) ==
    CASE obj = "balance" -> Some(<<>>)
      [] obj = "customers" -> Some(<<"email">>)
      [] obj = "shipping_rates" -> Some(<<"active", "created", "currency">>)
      [] OTHER -> Some(<<>>)

(* Pushable fields of an object; None for an object that is not implemented. *)
ObjectFields(obj) ==
    CASE obj = "balance" -> Some(<<>>)
      [] obj = "customers" -> Some(<<"email">>)
      [] obj = "shipping_rates" -> Some(<<"active", "created", "currency">>)
      [] obj = "accounts" -> Some(<<>>)
      [] OTHER -> None

base_url == [path |-> <<"v1">>, query |-> <<>>]

build_url(obj, quals, ps, cursor) ==
    IF ObjectFields(obj) = None THEN None
    ELSE Some(pushdown_quals([path |-> Append(base_url.path, obj), query |-> <<>>],
                             obj, quals, ObjectFields(obj)[1], ps, cursor))

(* a slip in the page ceiling: the partial page is not counted *)
stripe_page_cnt_floor(limit) ==
    IF limit /= None
    THEN (limit[1].offset + limit[1].count) \div page_size
    ELSE I64_MAX

(* a slip in the page ceiling: one page too many *)
stripe_page_cnt_plus2(limit) ==
    IF limit /= None
    THEN (limit[1].offset + limit[1].count) \div page_size + 2
    ELSE I64_MAX

(* (limit.offset + limit.count) / page_size + 1, or i64::MAX without limit *)
stripe_page_cnt(limit) ==
    IF limit /= None
    THEN (limit[1].offset + limit[1].count) \div page_size + 1
    ELSE I64_MAX

----------------------------------------------------------------------------
(* Stripe: response bodies and the payload mapper *)

(* A remote object carries its id; a row mapped from it keeps that         *)
(* identity, and the balance_type the balance transform inserts.           *)
Row(k, bt) == [id |-> k, balance_type |-> bt]

RowsFrom(base, n) == [i \in 1..n |-> Row(base + i, "")]

(* { "object": "list", "data": [...], "has_more": ... } *)
ListBody(base, n, hm) ==
    [object |-> "list", data |-> RowsFrom(base, n), has_more |-> hm,
     available |-> <<>>, pending |-> <<>>, offset |-> None]
(* a single object, as a point lookup returns it *)
ObjectBody(base) ==
    [object |-> "account", data |-> RowsFrom(base, 1), has_more |-> None,
     available |-> <<>>, pending |-> <<>>, offset |-> None]
(* { "object": "balance", "available": [...], "pending": [...] } *)
BalanceBody(base) ==
    [object |-> "balance", data |-> <<>>, has_more |-> None,
     available |-> RowsFrom(base, 2), pending |-> RowsFrom(base + 2, 2),
     offset |-> None]
NoBody ==
    [object |-> "", data |-> <<>>, has_more |-> None,
     available |-> <<>>, pending |-> <<>>, offset |-> None]

(* a slip in the balance transform: the last entry of each sub-category  *)
(* is taken instead of the first                                           *)
body_to_rows_last_entry(body) ==
    LET is_list == body.object = "list"
        is_balance == body.object = "balance"
        objs == IF is_list THEN body.data
                ELSE IF is_balance
                     THEN << Row(body.available[Len(body.available)].id, "available"),
                             Row(body.pending[Len(body.pending)].id, "pending") >>
                     ELSE << body.data[1] >>
        cursor == IF objs /= <<>> /\ ~is_balance
                  THEN Some(ToString(objs[Len(objs)].id))
                  ELSE None
    IN  [rows |-> objs, cursor |-> cursor, has_more |-> body.has_more]

(* a slip in the cursor: the id of the first object of the page *)
body_to_rows_first_cursor(body) ==
    LET is_list == body.object = "list"
        is_balance == body.object = "balance"
        objs == IF is_list THEN body.data
                ELSE IF is_balance
                     THEN << Row(body.available[1].id, "available"),
                             Row(body.pending[1].id, "pending") >>
                     ELSE << body.data[1] >>
        cursor == IF objs /= <<>> /\ ~is_balance
                  THEN Some(ToString(objs[1].id))
                  ELSE None
    IN  [rows |-> objs, cursor |-> cursor, has_more |-> body.has_more]

(* body_to_rows: (rows, cursor, has_more) *)
body_to_rows(body) ==
    LET is_list == body.object = "list"
        is_balance == body.object = "balance"
        objs == IF is_list THEN body.data
                ELSE IF is_balance
                     THEN << Row(body.available[1].id, "available"),
                             Row(body.pending[1].id, "pending") >>
                     ELSE << body.data[1] >>
        cursor == IF objs /= <<>> /\ ~is_balance
                  THEN Some(ToString(objs[Len(objs)].id))
                  ELSE None
    IN  [rows |-> objs, cursor |-> cursor, has_more |-> body.has_more]

inc_stats_request_cnt(stats_metadata) == stats_metadata + 1

(* a slip in extend: the new page is put in front of the buffered rows *)
extend_front(result, rows) == rows \o result

(* Vec::extend *)
extend(result, rows) == result \o rows

----------------------------------------------------------------------------
(* The remote service *)

(* A response: its status, its body, and the records it carries, as the  *)
(* rows they stand for.                                                    *)
Ok(body, records) == [status |-> 200, body |-> body, records |-> records]
(* status 0: the transport call itself failed (send() returned Err) *)
Failure(status) == [status |-> status, body |-> NoBody, records |-> <<>>]

HasMore == { None, Some(TRUE), Some(FALSE) }

StripeObjectAnswer(base) == Ok(ObjectBody(base), RowsFrom(base, 1))
StripeBalanceAnswer(base) ==
    Ok(BalanceBody(base), << Row(base + 1, "available"), Row(base + 3, "pending") >>)
StripeListAnswers(base) ==
    { Ok(ListBody(base, n, hm), RowsFrom(base, n)) : n \in PageRows, hm \in HasMore }
Failures == { Failure(404), Failure(400), Failure(500), Failure(0) }

(* What is recorded of an answer *)
Answer(resp) ==
    [status |-> resp.status, n |-> Len(resp.records),
     has_more |-> resp.body.has_more, offset |-> resp.body.offset]

(* Answers of the Stripe API to a request: a single object for a point    *)
(* lookup, the balance object for the balance endpoint, a list otherwise;  *)
(* or 404, another non-success status, or a transport failure.             *)
StripeAnswers(url, base) ==
    Failures
    \cup (IF Len(url.path) = 3 THEN { StripeObjectAnswer(base) }
          ELSE IF url.path[2] = "balance" THEN { StripeBalanceAnswer(base) }
          ELSE StripeListAnswers(base))

(* Answers of the Airtable API: a page of records with or without the     *)
(* offset of the next page, a non-success status, or a transport failure.  *)
AirtableBody(base, n, offset) ==
    [object |-> "records", data |-> RowsFrom(base, n), has_more |-> None,
     available |-> <<>>, pending |-> <<>>, offset |-> offset]
AirtableAnswers(base, token) ==
    { [status |-> 200, body |-> AirtableBody(base, n, o), records |-> RowsFrom(base, n)] :
          n \in PageRows, o \in {None, Some(token)} }
    \cup { Failure(400), Failure(500), Failure(0) }

(* Answers of ClickHouse to a query: a block of rows, some of whose       *)
(* columns may have a type field_to_cell does not support, or an error.    *)
BlockRows == {0, 3}
Block(n, unsupported) == [rows |-> RowsFrom(0, n), unsupported |-> unsupported]
ClickHouseAnswers ==
    { [ok |-> TRUE, block |-> Block(n, u)] : n \in BlockRows, u \in {{}, {"name"}} }
    \cup { [ok |-> FALSE, block |-> Block(0, {})] }

----------------------------------------------------------------------------
(* State *)

NoArgs == [quals |-> <<>>, limit |-> None, options |-> None]
NoLoc == [obj |-> "", page_cnt |-> 0, page |-> 0, result |-> <<>>,
          cursor |-> None, stats_metadata |-> 0, url |-> <<>>, offset |-> None]

(* String::default() *)
NoTable == [name |-> "", paren |-> FALSE, placeholders |-> <<>>]

Connectors == {"stripe", "airtable", "clickhouse"}

(* a JSON object: a map from keys to values *)
EmptyMap == [k \in {} |-> ""]
(* JsonValue::Null *)
JsonNull == [null |-> TRUE, map |-> EmptyMap]
JsonObject(map) == [null |-> FALSE, map |-> map]

(* the mutation call of the session: which call, the row it was handed,  *)
(* the object or table, and the body (Stripe) or block row (ClickHouse)    *)
(* built from the row                                                      *)
NoInsert == [call |-> "", src |-> None, obj |-> "", rowid |-> "",
             body |-> JsonNull, block |-> <<>>]

(* no page decoded yet *)
NoPage == [decoded |-> FALSE, objs |-> <<>>, tgt_cols |-> <<>>, rows |-> <<>>]

Sessions == {1, 2}
IdleSession == [pc |-> "idle", call |-> "", stats_metadata |-> 0, issued |-> 0,
                failed |-> FALSE]

(* StripeFdw::new, AirtableFdw::new, ClickHouseFdw::new.  The client of   *)
(* StripeFdw and AirtableFdw exists when an API key is configured; the     *)
(* client of ClickHouseFdw is created by begin_scan.                       *)
Init ==
    /\ fdw \in Connectors
    /\ pc = "new"
    /\ client \in (IF fdw = "clickhouse" THEN {None} ELSE {None, Some("client")})
    /\ scan_result = None
    /\ args = NoArgs
    /\ loc = NoLoc
    /\ request_cnt = 0
    /\ ch = [client |-> None, table |-> NoTable, rowid_col |-> "", tgt_cols |-> <<>>,
             scan_blk |-> None, row_idx |-> 0, params |-> <<>>]
    /\ requests = <<>>
    /\ fetched = <<>>
    /\ delivered = <<>>
    /\ answers = <<>>
    /\ err = FALSE
    /\ iter_err = FALSE
    /\ ret = "none"
    /\ attempts = <<>>
    /\ ins = NoInsert
    /\ sess = [s \in Sessions |-> IdleSession]
    /\ page = NoPage
    /\ conv = [done |-> FALSE, sql_type |-> "", value |-> <<>>, cell |-> None]
    /\ row_out = <<>>
    /\ scan_no = 1

(* begin_scan returns without touching the buffer *)
ReturnEarly(e) ==
    /\ pc' = "scanned"
    /\ loc' = NoLoc
    /\ err' = e
    /\ UNCHANGED <<scan_result, request_cnt>>

----------------------------------------------------------------------------
(* StripeFdw *)

(* a slip in the short-circuit: taken only when the offset is 0 as well *)
no_rows_requested_offset0(limit) ==
    limit /= None /\ limit[1].count = 0 /\ limit[1].offset = 0

(* if limit.count == 0 { return; } *)
no_rows_requested(limit) == limit /= None /\ limit[1].count = 0

(* a slip: the 404 test is missing, so 404 is an error status like others *)
resp_outcome_no_404(status) ==
    CASE status = 0 -> "send_error"
      [] status = 200 -> "ok"
      [] OTHER -> "status_error"

(* a slip: every non-success status ends the loop like 404 does *)
resp_outcome_err_as_empty(status) ==
    CASE status = 0 -> "send_error"
      [] status = 200 -> "ok"
      [] OTHER -> "not_found"

(* What begin_scan makes of the outcome of client.get(url).send(): the   *)
(* call failed, the status is 404, error_for_status() is an error, or the *)
(* response is a success.                                                 *)
resp_outcome(status) ==
    CASE status = 0 -> "send_error"
      [] status = 404 -> "not_found"
      [] status = 200 -> "ok"
      [] OTHER -> "status_error"

(* a slip: the has_more test is negated *)
last_page_negated(has_more) == has_more /= Some(FALSE)

(* a slip: a response without the flag is taken for one with more pages *)
last_page_none_goes_on(has_more) == has_more = Some(FALSE)

(* match has_more { Some(has_more) => if !has_more { break }, None => break } *)
last_page(has_more) == has_more /= Some(TRUE)

(* a slip: the counter is not persisted after the loop *)
StripeSaveResult_no_stats(result, stats_metadata) ==
    /\ scan_result' = Some(result)
    /\ pc' = "scanned"
    /\ loc' = NoLoc
    /\ err' = FALSE
    /\ UNCHANGED request_cnt

(* the statements after the fetch loop of begin_scan *)
StripeSaveResult(result, stats_metadata) ==
    /\ request_cnt' = stats_metadata
    /\ scan_result' = Some(result)
    /\ pc' = "scanned"
    /\ loc' = NoLoc
    /\ err' = FALSE

(* begin_scan up to the first test of the while loop *)
StripeBeginScan(quals, limit, object) ==
    /\ fdw = "stripe"
    /\ pc = "new"
    /\ args' = [quals |-> quals, limit |-> limit, options |-> object]
    /\ requests' = <<>>
    /\ fetched' = <<>>
    /\ delivered' = <<>>
    /\ answers' = <<>>
    /\ ret' = "none"
    /\ UNCHANGED <<attempts, ins, sess, page, conv, row_out, scan_no, fdw, client, ch, iter_err>>
    /\ IF object = None THEN ReturnEarly(FALSE)
       ELSE IF client = None THEN ReturnEarly(FALSE)
       ELSE IF no_rows_requested(limit) THEN ReturnEarly(FALSE)
       ELSE IF 0 < stripe_page_cnt(limit)
            THEN /\ pc' = "loop"
                 /\ loc' = [NoLoc EXCEPT !.obj = object[1],
                                         !.page_cnt = stripe_page_cnt(limit),
                                         !.stats_metadata = request_cnt]
                 /\ err' = FALSE
                 /\ UNCHANGED <<scan_result, request_cnt>>
            ELSE StripeSaveResult(<<>>, request_cnt)

(* one iteration of the while loop of begin_scan, and what follows the   *)
(* loop when the iteration leaves it                                      *)
StripeFetchPage(resp) ==
    /\ fdw = "stripe"
    /\ pc = "loop"
    /\ Len(requests) < MaxRequests
    /\ UNCHANGED <<attempts, ins, sess, page, conv, row_out, scan_no, fdw, client, args, delivered, ret, ch, iter_err>>
    /\ LET url == build_url(loc.obj, args.quals, page_size, loc.cursor)
           stats_metadata == inc_stats_request_cnt(loc.stats_metadata)
       IN  IF url = None
           THEN /\ ReturnEarly(TRUE)
                /\ UNCHANGED <<requests, fetched, answers>>
           ELSE /\ resp \in StripeAnswers(url[1], Len(fetched))
                /\ requests' = Append(requests, url[1])
                /\ answers' = Append(answers, Answer(resp))
                /\ IF resp_outcome(resp.status) = "send_error"
                   THEN ReturnEarly(TRUE) /\ UNCHANGED fetched
                   ELSE IF resp_outcome(resp.status) = "not_found"
                   THEN StripeSaveResult(loc.result, stats_metadata) /\ UNCHANGED fetched
                   ELSE IF resp_outcome(resp.status) = "status_error"
                   THEN ReturnEarly(TRUE) /\ UNCHANGED fetched
                   ELSE LET parsed == body_to_rows(resp.body)
                            result == extend(loc.result, parsed.rows)
                        IN  /\ fetched' = fetched \o resp.records
                            /\ IF parsed.rows = <<>>
                               THEN StripeSaveResult(loc.result, stats_metadata)
                               ELSE IF last_page(parsed.has_more)
                               THEN StripeSaveResult(result, stats_metadata)
                               ELSE IF loc.page + 1 < loc.page_cnt
                               THEN /\ loc' = [loc EXCEPT !.page = loc.page + 1,
                                                          !.result = result,
                                                          !.cursor = parsed.cursor,
                                                          !.stats_metadata = stats_metadata]
                                    /\ UNCHANGED <<pc, scan_result, request_cnt, err>>
                               ELSE StripeSaveResult(result, stats_metadata)

----------------------------------------------------------------------------
(* AirtableFdw *)

(* The base_id and table_id options of an Airtable foreign table. *)
AirtableOptions ==
    { [base_id |-> b, table_id |-> t] :
          b \in {None, Some("app1")}, t \in {None, Some("tbl1")} }

airtable_build_url(base_id, table_id) == <<"v0", base_id, table_id>>

(* a slip: only base_id is required, table_id defaults to the empty string *)
airtable_scan_url_base_only(options) ==
    IF options.base_id = None THEN None
    ELSE Some(airtable_build_url(options.base_id[1],
                                 IF options.table_id = None THEN ""
                                 ELSE options.table_id[1]))

(* require_option("base_id", options).and_then(|base_id|                   *)
(*     require_option("table_id", options).map(|table_id| build_url(..)))  *)
airtable_scan_url(options) ==
    IF options.base_id = None \/ options.table_id = None THEN None
    ELSE Some(airtable_build_url(options.base_id[1], options.table_id[1]))

(* set_limit_offset(url, None, offset) *)
set_limit_offset(url, offset) ==
    [path |-> url,
     query |-> IF offset /= None THEN << <<"offset", offset[1]>> >> ELSE <<>>]

(* parse_resp: (rows, offset) *)
parse_resp(body) == [rows |-> body.data, offset |-> body.offset]

(* the statements after the loop of begin_scan *)
AirtableSaveResult(rows) ==
    /\ scan_result' = Some(rows)
    /\ pc' = "scanned"
    /\ loc' = NoLoc

(* begin_scan up to the loop *)
AirtableBeginScan(quals, limit, options) ==
    /\ fdw = "airtable"
    /\ pc = "new"
    /\ args' = [quals |-> quals, limit |-> limit, options |-> options]
    /\ requests' = <<>>
    /\ fetched' = <<>>
    /\ delivered' = <<>>
    /\ answers' = <<>>
    /\ ret' = "none"
    /\ err' = FALSE
    /\ UNCHANGED <<attempts, ins, sess, page, conv, row_out, scan_no, fdw, client, ch, iter_err, request_cnt>>
    /\ IF airtable_scan_url(options) = None
       THEN /\ pc' = "scanned"
            /\ UNCHANGED <<loc, scan_result>>
       ELSE IF client = None
       THEN AirtableSaveResult(<<>>)
       ELSE /\ pc' = "loop"
            /\ loc' = [NoLoc EXCEPT
                          !.url = airtable_scan_url(options)[1]]
            /\ UNCHANGED scan_result

(* one iteration of the loop of begin_scan, and what follows the loop     *)
(* when the iteration leaves it                                            *)
AirtableFetchPage(resp) ==
    /\ fdw = "airtable"
    /\ pc = "loop"
    /\ Len(requests) < MaxRequests
    /\ resp \in AirtableAnswers(Len(fetched), ToString(Len(requests) + 1))
    /\ UNCHANGED <<attempts, ins, sess, page, conv, row_out, scan_no, fdw, client, args, delivered, ret, ch, iter_err, request_cnt>>
    /\ requests' = Append(requests, set_limit_offset(loc.url, loc.offset))
    /\ answers' = Append(answers, Answer(resp))
    /\ IF resp.status /= 200
       THEN \* report_fetch_error!(url, err): the error is reported, and the
            \* loop goes on with the same offset
            /\ err' = TRUE
            /\ UNCHANGED <<pc, loc, scan_result, fetched>>
       ELSE LET parsed == parse_resp(resp.body)
                rows == extend(loc.result, parsed.rows)
            IN  /\ fetched' = fetched \o resp.records
                /\ UNCHANGED err
                /\ IF parsed.offset /= None
                   THEN /\ loc' = [loc EXCEPT !.result = rows, !.offset = parsed.offset]
                        /\ UNCHANGED <<pc, scan_result>>
                   ELSE AirtableSaveResult(rows)

----------------------------------------------------------------------------
(* iter_scan and end_scan of StripeFdw and AirtableFdw *)

(* a slip: the row is removed from the back of the buffer *)
drain_back(result) == SubSeq(result, 1, Len(result) - 1)

(* result.drain(0..1): the rows left in the buffer *)
drain_front(result) == Tail(result)

IterScan ==
    /\ fdw \in {"stripe", "airtable"}
    /\ pc \in {"scanned", "closed"}
    /\ IF scan_result /= None /\ scan_result[1] /= <<>>
       THEN /\ scan_result' = Some(drain_front(scan_result[1]))
            /\ delivered' = Append(delivered, Head(scan_result[1]))
            /\ ret' = "row"
       ELSE /\ ret' = "eod"
            /\ UNCHANGED <<scan_result, delivered>>
    /\ UNCHANGED <<attempts, ins, sess, page, conv, row_out, scan_no, fdw, pc, client, args, loc, request_cnt, ch, requests,
                   fetched, answers, err, iter_err>>

(* a slip: end_scan leaves the buffer in place *)
EndScan_keep_buffer ==
    /\ fdw \in {"stripe", "airtable"}
    /\ pc = "scanned"
    /\ pc' = "closed"
    /\ UNCHANGED <<attempts, ins, sess, page, conv, row_out, scan_no, fdw, client, scan_result, args, loc, request_cnt, ch, requests,
                   fetched, delivered, answers, err, iter_err, ret>>

EndScan ==
    /\ fdw \in {"stripe", "airtable"}
    /\ pc = "scanned"
    /\ scan_result' = None
    /\ pc' = "closed"
    /\ UNCHANGED <<attempts, ins, sess, page, conv, row_out, scan_no, fdw, client, args, loc, request_cnt, ch, requests, fetched,
                   delivered, answers, err, iter_err, ret>>

----------------------------------------------------------------------------
(* ClickHouseFdw *)

(* The 'table' option: a table name, or a parenthesised query that may    *)
(* hold ${field} placeholders (None: the option is missing).              *)
ChTables ==
    { None,
      Some([name |-> "test_table", paren |-> FALSE, placeholders |-> <<>>]),
      Some([name |-> "(select * from test_table)", paren |-> TRUE, placeholders |-> <<>>]),
      Some([name |-> "(select * from test_table where id = ${id})", paren |-> TRUE,
            placeholders |-> <<"id">>]) }
ChColumns == { <<>>, <<"id", "name">> }
ChSorts == { <<>>, <<[field |-> "name", reversed |-> FALSE]>> }

(* quals.iter().find(|&q| q.field == param) *)
RECURSIVE find_qual(_, _)
find_qual(quals, param) ==
    IF quals = <<>> THEN None
    ELSE IF Head(quals).field = param THEN Some(Head(quals))
    ELSE find_qual(Tail(quals), param)

(* cell.to_string(), the Display form of a Cell: a string is written     *)
(* between single quotes, the other scalars as their text                  *)
cell_to_string(cell) ==
    IF cell.t = "String" THEN "'" \o cell.v \o "'" ELSE cell.v

(* re.replace_all(&self.table, ...): the text put in place of each        *)
(* placeholder, the quals pushed on self.params, and whether an error was  *)
(* reported                                                                *)
RECURSIVE replace_all(_, _, _)
replace_all(placeholders, quals, params) ==
    IF placeholders = <<>> THEN [subst |-> <<>>, params |-> params, err |-> FALSE]
    ELSE LET q == find_qual(quals, Head(placeholders))
             pushed == IF q /= None THEN Append(params, q[1]) ELSE params
             text == IF q /= None /\ IsCell(q[1].value)
                     THEN cell_to_string(q[1].value) ELSE ""
             rest == replace_all(Tail(placeholders), quals, pushed)
         IN  [subst |-> <<text>> \o rest.subst,
              params |-> rest.params,
              err |-> (q = None \/ ~IsCell(q[1].value)) \/ rest.err]

HasParam(params, name) == \E i \in DOMAIN params : params[i].field = name

(* a slip: the limit is pushed down as 'limit count offset offset' *)
limit_clause_with_offset(limit) ==
    IF limit /= None
    THEN << <<"limit", limit[1].count>>, <<"offset", limit[1].offset>> >>
    ELSE <<>>

(* " limit {offset + count}" *)
limit_clause(limit) ==
    IF limit /= None
    THEN << <<"limit", limit[1].offset + limit[1].count>> >>
    ELSE <<>>

(* a slip: the columns and quals consumed as parameters are not filtered  *)
(* out of the select list and of the WHERE clause                          *)
deparse_keep_params(table, quals, columns, sorts, limit, params) ==
    LET r == IF table.paren THEN replace_all(table.placeholders, quals, params)
             ELSE [subst |-> <<>>, params |-> params, err |-> FALSE]
        tgts == IF columns = <<>> THEN <<"*">> ELSE columns
        cond == quals
    IN  [sql |-> << <<"select", tgts>>, <<"from", [name |-> table.name, subst |-> r.subst]>> >>
                 \o (IF cond /= <<>> THEN << <<"where", cond>> >> ELSE <<>>)
                 \o (IF sorts /= <<>> THEN << <<"order by", sorts>> >> ELSE <<>>)
                 \o limit_clause(limit),
         params |-> r.params,
         err |-> r.err]

(* deparse: the query as its sequence of clauses, and self.params after it *)
deparse(table, quals, columns, sorts, limit, params) ==
    LET r == IF table.paren THEN replace_all(table.placeholders, quals, params)
             ELSE [subst |-> <<>>, params |-> params, err |-> FALSE]
        tgts == IF columns = <<>> THEN <<"*">>
                ELSE SelectSeq(columns, LAMBDA c : ~HasParam(r.params, c))
        cond == SelectSeq(quals, LAMBDA q : ~HasParam(r.params, q.field))
    IN  [sql |-> << <<"select", tgts>>, <<"from", [name |-> table.name, subst |-> r.subst]>> >>
                 \o (IF cond /= <<>> THEN << <<"where", cond>> >> ELSE <<>>)
                 \o (IF sorts /= <<>> THEN << <<"order by", sorts>> >> ELSE <<>>)
                 \o limit_clause(limit),
         params |-> r.params,
         err |-> r.err]

(* field_to_cell on a column of the current block row: None for a column *)
(* of an unsupported type, else the cell made of the value of the column   *)
field_to_cell(block, col) ==
    IF col \in block.unsupported THEN None ELSE Some([t |-> "Column", v |-> col])

(* the loop of iter_scan over self.tgt_cols: the (column, cell) pairs     *)
(* pushed on the row, and whether the loop ran to its end                  *)
RECURSIVE iter_cells(_, _, _, _)
iter_cells(tgt_cols, params, block, row) ==
    IF tgt_cols = <<>> THEN [row |-> row, ok |-> TRUE]
    ELSE LET tgt_col == Head(tgt_cols)
             param == find_qual(params, tgt_col)
         IN  IF param /= None
             THEN iter_cells(Tail(tgt_cols), params, block,
                             IF IsCell(param[1].value)
                             THEN Append(row, <<tgt_col, param[1].value>>)
                             ELSE row)
             ELSE IF field_to_cell(block, tgt_col) = None
             THEN [row |-> row, ok |-> FALSE]
             ELSE iter_cells(Tail(tgt_cols), params, block,
                             Append(row, <<tgt_col, field_to_cell(block, tgt_col)[1]>>))

(* begin_scan; connected: whether create_client gets a handle *)
ClickHouseBeginScan(quals, columns, sorts, limit, table, connected, answer) ==
    /\ fdw = "clickhouse"
    /\ pc = "new"
    /\ args' = [quals |-> quals, limit |-> limit, options |-> table]
    /\ delivered' = <<>>
    /\ answers' = <<>>
    /\ ret' = "none"
    /\ pc' = "scanned"
    /\ UNCHANGED <<attempts, ins, sess, page, conv, row_out, scan_no, fdw, client, scan_result, loc, request_cnt, iter_err>>
    /\ LET handle == IF connected THEN Some("handle") ELSE None
       IN  IF table = None
           THEN /\ ch' = [ch EXCEPT !.client = handle]
                /\ err' = ~connected
                /\ requests' = <<>>
                /\ fetched' = <<>>
           ELSE LET d == deparse(table[1], quals, columns, sorts, limit, ch.params)
                    sent == handle /= None
                    got == sent /\ answer.ok
                IN  /\ ch' = [client |-> handle, table |-> table[1],
                              rowid_col |-> ch.rowid_col, tgt_cols |-> columns,
                              scan_blk |-> IF got THEN Some(answer.block) ELSE ch.scan_blk,
                              row_idx |-> 0, params |-> d.params]
                    /\ err' = (~connected \/ d.err \/ (sent /\ ~answer.ok))
                    /\ requests' = IF sent THEN <<d.sql>> ELSE <<>>
                    /\ fetched' = IF got THEN answer.block.rows ELSE <<>>

(* a slip: the row index is advanced before the cells are converted *)
ClickHouseIterScan_advance ==
    /\ fdw = "clickhouse"
    /\ pc \in {"scanned", "closed"}
    /\ UNCHANGED <<attempts, ins, sess, page, conv, scan_no, fdw, pc, client, scan_result,
                   args, loc, request_cnt, requests, fetched, answers, err>>
    /\ IF ch.scan_blk /= None /\ ch.row_idx < Len(ch.scan_blk[1].rows)
       THEN LET r == iter_cells(ch.tgt_cols, ch.params, ch.scan_blk[1], <<>>)
            IN  /\ row_out' = r.row
                /\ ch' = [ch EXCEPT !.row_idx = ch.row_idx + 1]
                /\ IF ~r.ok
                   THEN /\ iter_err' = TRUE
                        /\ ret' = "eod"
                        /\ UNCHANGED delivered
                   ELSE /\ delivered' = Append(delivered, ch.scan_blk[1].rows[ch.row_idx + 1])
                        /\ ret' = "row"
                        /\ UNCHANGED iter_err
       ELSE /\ ret' = "eod"
            /\ UNCHANGED <<ch, delivered, iter_err, row_out>>

ClickHouseIterScan ==
    /\ fdw = "clickhouse"
    /\ pc \in {"scanned", "closed"}
    /\ UNCHANGED <<attempts, ins, sess, page, conv, scan_no, fdw, pc, client, scan_result,
                   args, loc, request_cnt, requests, fetched, answers, err>>
    /\ IF ch.scan_blk /= None /\ ch.row_idx < Len(ch.scan_blk[1].rows)
       THEN LET r == iter_cells(ch.tgt_cols, ch.params, ch.scan_blk[1], <<>>)
            IN  /\ row_out' = r.row
                /\ IF ~r.ok
                   THEN /\ iter_err' = TRUE
                        /\ ret' = "eod"
                        /\ UNCHANGED <<ch, delivered>>
                   ELSE /\ ch' = [ch EXCEPT !.row_idx = ch.row_idx + 1]
                        /\ delivered' = Append(delivered, ch.scan_blk[1].rows[ch.row_idx + 1])
                        /\ ret' = "row"
                        /\ UNCHANGED iter_err
       ELSE /\ ret' = "eod"
            /\ UNCHANGED <<ch, delivered, iter_err, row_out>>

ClickHouseEndScan ==
    /\ fdw = "clickhouse"
    /\ pc = "scanned"
    /\ ch' = [ch EXCEPT !.scan_blk = None]
    /\ pc' = "closed"
    /\ UNCHANGED <<attempts, ins, sess, page, conv, row_out, scan_no, fdw, client, scan_result, args, loc, request_cnt, requests,
                   fetched, delivered, answers, err, iter_err, ret>>

----------------------------------------------------------------------------
(* The calls of the host, with their arguments, and the answers of the    *)
(* remote.                                                                 *)
ClickHouseScan ==
    /\ fdw = "clickhouse" /\ pc = "new"
    /\ \E quals \in QualLists, columns \in ChColumns, sorts \in ChSorts,
          limit \in Limits, table \in ChTables, connected \in BOOLEAN,
          answer \in ClickHouseAnswers :
          ClickHouseBeginScan(quals, columns, sorts, limit, table, connected, answer)

StripeScan ==
    /\ fdw = "stripe" /\ pc = "new"
    /\ \E quals \in QualLists, limit \in Limits, object \in StripeObjects :
          StripeBeginScan(quals, limit, object)

StripePage ==
    /\ fdw = "stripe" /\ pc = "loop"
    /\ \E resp \in Failures \cup StripeListAnswers(Len(fetched))
                   \cup { StripeObjectAnswer(Len(fetched)), StripeBalanceAnswer(Len(fetched)) } :
          StripeFetchPage(resp)

AirtableScan ==
    /\ fdw = "airtable" /\ pc = "new"
    /\ \E limit \in Limits, options \in AirtableOptions :
          AirtableBeginScan(<<>>, limit, options)

AirtablePage ==
    /\ fdw = "airtable" /\ pc = "loop"
    /\ \E resp \in AirtableAnswers(Len(fetched), ToString(Len(requests) + 1)) :
          AirtableFetchPage(resp)

Next ==
    \/ StripeScan
    \/ StripePage
    \/ AirtableScan
    \/ AirtablePage
    \/ IterScan
    \/ EndScan
    \/ ClickHouseScan
    \/ ClickHouseIterScan
    \/ ClickHouseEndScan

Spec == Init /\ [][Next]_vars

TypeOK == pc \in {"new", "loop", "scanned", "closed", "insert", "update", "modify",
                  "modified"}

----------------------------------------------------------------------------
(* Stripe: the payload mapper on cells.  A row is the sequence of its      *)
(* column names and the cell (or None) of each; a JSON object is a map     *)
(* from keys to values [k, v] with the kind and the text of the value.     *)

TimestampCell(s) == [t |-> "Timestamp", v |-> s]
JsonCell(o) == [t |-> "Json", v |-> o]

JsonString(s) == [k |-> "string", v |-> s]
JsonInt(s) == [k |-> "int", v |-> s]
JsonFloat(s) == [k |-> "float", v |-> s]
JsonBool(s) == [k |-> "bool", v |-> s]

(* columns of the 'charges' object in resp_to_rows, one of each type used *)
ChargeCols == << <<"id", "string">>, <<"amount", "i64">>, <<"created", "timestamp">> >>

(* the JSON value row_to_body inserts for a cell of a scalar type *)
cell_to_json(cell) ==
    CASE cell.t = "Bool" -> JsonBool(cell.v)
      [] cell.t = "I64" -> JsonInt(cell.v)
      [] cell.t = "F64" -> JsonFloat(cell.v)
      [] cell.t = "String" -> JsonString(cell.v)

(* the loop of row_to_body over row.iter() *)
RECURSIVE encode_cells(_, _, _)
encode_cells(cols, cells, map) ==
    IF cols = <<>> THEN JsonObject(map)
    ELSE LET col_name == Head(cols)
             cell == cells[col_name]
         IN  IF cell = None THEN encode_cells(Tail(cols), cells, map)
             ELSE IF cell[1].t \in {"Bool", "I64", "F64", "String"}
             THEN encode_cells(Tail(cols), cells, (col_name :> cell_to_json(cell[1])) @@ map)
             ELSE IF cell[1].t = "Json"
             THEN IF col_name = "attrs"
                  THEN encode_cells(Tail(cols), cells, cell[1].v @@ map)
                  ELSE encode_cells(Tail(cols), cells,
                                    (col_name :> [k |-> "object", v |-> cell[1].v]) @@ map)
             ELSE JsonNull

row_to_body(row) == encode_cells(row.cols, row.cells, EmptyMap)

(* normal_cols.iter().find(|(c, _)| c == &tgt_col.name) *)
RECURSIVE find_col(_, _)
find_col(normal_cols, name) ==
    IF normal_cols = <<>> THEN None
    ELSE IF Head(normal_cols)[1] = name THEN Some(Head(normal_cols)[2])
    ELSE find_col(Tail(normal_cols), name)

(* the cell body_to_rows makes of a JSON value for a column type *)
json_to_cell(v, col_type) ==
    CASE col_type = "bool" -> IF v.k = "bool" THEN Some(BoolCell(v.v)) ELSE None
      [] col_type = "i64" -> IF v.k = "int" THEN Some(I64Cell(v.v)) ELSE None
      [] col_type = "f64" ->
             IF v.k \in {"int", "float"} THEN Some([t |-> "F64", v |-> v.v]) ELSE None
      [] col_type = "string" -> IF v.k = "string" THEN Some(StrCell(v.v)) ELSE None
      [] col_type = "timestamp" -> IF v.k = "int" THEN Some(TimestampCell(v.v)) ELSE None
      [] OTHER -> None

(* the row body_to_rows builds from one object of the page *)
object_to_row(obj, normal_cols, tgt_cols) ==
    LET pushed == SelectSeq(tgt_cols,
                     LAMBDA c : find_col(normal_cols, c) /= None \/ c = "attrs")
    IN  [cols |-> pushed,
         cells |-> [c \in { pushed[i] : i \in DOMAIN pushed } |->
                       IF find_col(normal_cols, c) /= None
                       THEN IF c \in DOMAIN obj
                            THEN json_to_cell(obj[c], find_col(normal_cols, c)[1])
                            ELSE None
                       ELSE Some(JsonCell(obj))]]

(* Rows handed to insert: columns of the 'charges' foreign table in either *)
(* position of the attrs column, every cell present or absent.             *)
RowCols == { <<"id", "amount", "created", "attrs">>, <<"attrs", "id", "amount", "created">> }
AttrsObjects == { ("id" :> JsonString("ch_9")),
                  ("id" :> JsonString("ch_1")) @@ ("amount" :> JsonInt("500")) }
InsertRows ==
    { [cols |-> cols,
       cells |-> ("id" :> id) @@ ("amount" :> amount) @@ ("created" :> created)
                 @@ ("attrs" :> attrs)] :
          cols \in RowCols,
          id \in {None, Some(StrCell("ch_1"))},
          amount \in {None, Some(I64Cell("500"))},
          created \in {None, Some(TimestampCell("1700000000"))},
          attrs \in {None} \cup { Some(JsonCell(o)) : o \in AttrsObjects } }

----------------------------------------------------------------------------
(* The retry layer of the client built by create_client:                   *)
(* RetryTransientMiddleware with ExponentialBackoff, max_retries = 3.      *)
(* attempts[i] is the state of the i-th transport call of the session:     *)
(* the number of attempts made and the outcome of the last one.            *)

(* build_with_max_retries(3) *)
max_retries == 3

(* outcomes the layer retries: a transport failure such as a timeout (0)   *)
(* and a 5xx status                                                        *)
AttemptStatuses == {200, 404, 400, 500, 0}
Transient(status) == status \in {0, 500}

(* a transport call is in flight after the requests sent so far *)
InFlight == Len(attempts) = Len(requests) + 1

(* a slip: the retry budget is compared with <= *)
can_retry_one_more(a) == Transient(a.status) /\ a.tries - 1 <= max_retries

(* the layer sends the request again: the last outcome was transient and   *)
(* fewer than max_retries retries were made                                *)
can_retry(a) == Transient(a.status) /\ a.tries - 1 < max_retries

(* the call has returned to begin_scan or insert with this outcome *)
Returned == InFlight /\ ~can_retry(attempts[Len(attempts)])

(* one attempt of the transport call in flight reaches the remote *)
RetryTransientAttempt(status) ==
    /\ pc \in {"loop", "insert", "update"}
    /\ Len(requests) < MaxRequests
    /\ IF InFlight
       THEN /\ can_retry(attempts[Len(attempts)])
            /\ attempts' = [attempts EXCEPT ![Len(attempts)] =
                               [tries |-> @.tries + 1, status |-> status]]
       ELSE attempts' = Append(attempts, [tries |-> 1, status |-> status])
    /\ UNCHANGED <<fdw, pc, client, scan_result, args, loc, request_cnt, ch,
                   requests, fetched, delivered, answers, err, iter_err, ret,
                   ins, sess, page, conv, row_out, scan_no>>

----------------------------------------------------------------------------
(* StripeFdw::begin_modify and insert *)

(* begin_modify and insert up to the POST *)
StripeInsertBegin(src, object) ==
    /\ fdw = "stripe"
    /\ pc = "new"
    /\ LET body == row_to_body(src)
       IN  /\ ins' = [call |-> "insert", src |-> Some(src),
                      obj |-> IF object = None THEN "" ELSE object[1],
                      rowid |-> "", body |-> body, block |-> <<>>]
           /\ IF client = None THEN pc' = "modified" /\ UNCHANGED err
              ELSE IF body.null THEN pc' = "modified" /\ err' = TRUE
              ELSE pc' = "insert" /\ UNCHANGED err
    /\ UNCHANGED <<fdw, client, scan_result, args, loc, request_cnt, ch, requests,
                   fetched, delivered, answers, iter_err, ret, attempts, sess, page, conv, row_out, scan_no>>

(* insert from the return of client.post(url).form(&body).send() *)
StripeInsertEnd ==
    /\ fdw = "stripe"
    /\ pc = "insert"
    /\ Returned
    /\ LET status == attempts[Len(attempts)].status
           stats_metadata == inc_stats_request_cnt(request_cnt)
       IN  /\ requests' = Append(requests, [path |-> <<"v1", ins.obj>>, query |-> <<>>])
           /\ answers' = Append(answers, Answer(Failure(status)))
           /\ IF resp_outcome(status) = "ok"
              THEN request_cnt' = stats_metadata /\ UNCHANGED err
              ELSE err' = TRUE /\ UNCHANGED request_cnt
    /\ pc' = "modified"
    /\ UNCHANGED <<fdw, client, scan_result, args, loc, ch, fetched, delivered,
                   iter_err, ret, attempts, ins, sess, page, conv, row_out, scan_no>>

(* begin_modify and update up to the POST; rowid is the text of the      *)
(* Cell::String the host passes                                            *)
StripeUpdateBegin(rowid, new_row, object) ==
    /\ fdw = "stripe"
    /\ pc = "new"
    /\ LET body == row_to_body(new_row)
       IN  /\ ins' = [call |-> "update", src |-> Some(new_row),
                      obj |-> IF object = None THEN "" ELSE object[1],
                      rowid |-> rowid, body |-> body, block |-> <<>>]
           /\ IF client = None THEN pc' = "modified" /\ UNCHANGED err
              ELSE IF body.null THEN pc' = "modified" /\ err' = TRUE
              ELSE pc' = "update" /\ UNCHANGED err
    /\ UNCHANGED <<fdw, client, scan_result, args, loc, request_cnt, ch, requests,
                   fetched, delivered, answers, iter_err, ret, attempts, sess, page, conv, row_out, scan_no>>

(* update from the return of client.post(url).form(&body).send() *)
StripeUpdateEnd ==
    /\ fdw = "stripe"
    /\ pc = "update"
    /\ Returned
    /\ LET status == attempts[Len(attempts)].status
           stats_metadata == inc_stats_request_cnt(request_cnt)
       IN  /\ requests' = Append(requests,
                              [path |-> <<"v1", ins.obj, ins.rowid>>, query |-> <<>>])
           /\ answers' = Append(answers, Answer(Failure(status)))
           /\ IF resp_outcome(status) = "ok"
              THEN request_cnt' = stats_metadata /\ UNCHANGED err
              ELSE err' = TRUE /\ UNCHANGED request_cnt
    /\ pc' = "modified"
    /\ UNCHANGED <<fdw, client, scan_result, args, loc, ch, fetched, delivered,
                   iter_err, ret, attempts, ins, sess, page, conv, row_out, scan_no>>

----------------------------------------------------------------------------
(* ClickHouseFdw::begin_modify and insert *)

(* Rows handed to ClickHouseFdw::insert: every cell present or absent; the *)
(* timestamp with or without fractional seconds; a json cell.              *)
ChRowCols == <<"id", "name", "created", "data">>
ChInsertRows ==
    { [cols |-> ChRowCols,
       cells |-> ("id" :> id) @@ ("name" :> name) @@ ("created" :> created)
                 @@ ("data" :> data)] :
          id \in {None, Some(I64Cell("1"))},
          name \in {None, Some(StrCell("test"))},
          created \in {None, Some(TimestampCell("2023-01-01 00:00:00")),
                       Some(TimestampCell("2023-01-01 00:00:00.5"))},
          data \in {None, Some(JsonCell(("k" :> JsonString("v"))))} }

(* NaiveDateTime::parse_from_str(&s, "%Y-%m-%d %H:%M:%S") succeeds *)
parse_from_str(s) == s = "2023-01-01 00:00:00"

(* types::Value::from(v) *)
ChValue(cell) == [k |-> cell.t, v |-> cell.v]

(* the loop of insert over src.iter(): the (column, value) pairs pushed   *)
(* on the block row, and whether an error was reported                     *)
RECURSIVE push_cells(_, _, _, _)
push_cells(cols, cells, row, e) ==
    IF cols = <<>> THEN [row |-> row, err |-> e]
    ELSE LET col_name == Head(cols)
             cell == cells[col_name]
         IN  IF cell = None THEN push_cells(Tail(cols), cells, row, e)
             ELSE IF cell[1].t \in {"Bool", "F64", "I64", "String"}
             THEN push_cells(Tail(cols), cells,
                             Append(row, <<col_name, ChValue(cell[1])>>), e)
             ELSE IF cell[1].t \in {"Date", "Timestamp"}
             THEN IF parse_from_str(cell[1].v)
                  THEN push_cells(Tail(cols), cells,
                                  Append(row, <<col_name, ChValue(cell[1])>>), e)
                  ELSE push_cells(Tail(cols), cells, row, TRUE)
             ELSE push_cells(Tail(cols), cells, row, TRUE)

(* begin_modify; connected: whether create_client gets a handle *)
ClickHouseBeginModify(table, rowid_col, connected) ==
    /\ fdw = "clickhouse"
    /\ pc = "new"
    /\ ch' = [ch EXCEPT
                !.client = IF connected THEN Some("handle") ELSE None,
                !.table = IF table = None \/ rowid_col = None THEN @
                          ELSE [name |-> table[1], paren |-> FALSE, placeholders |-> <<>>],
                !.rowid_col = IF table = None \/ rowid_col = None THEN @
                              ELSE rowid_col[1]]
    /\ err' = ~connected
    /\ pc' = "modify"
    /\ UNCHANGED <<fdw, client, scan_result, args, loc, request_cnt, requests,
                   fetched, delivered, answers, iter_err, ret, attempts, ins, sess, page, conv, row_out, scan_no>>

(* insert; ok: whether client.insert(&self.table, block) succeeds *)
ClickHouseInsert(src, ok) ==
    /\ fdw = "clickhouse"
    /\ pc = "modify"
    /\ LET r == push_cells(src.cols, src.cells, <<>>, FALSE)
       IN  /\ ins' = [call |-> "insert", src |-> Some(src), obj |-> ch.table.name,
                      rowid |-> "", body |-> JsonNull,
                      block |-> IF ch.client /= None THEN r.row ELSE <<>>]
           /\ IF ch.client /= None
              THEN /\ requests' = Append(requests,
                                     << <<"insert", ch.table.name>>, <<"values", r.row>> >>)
                   /\ err' = (err \/ r.err \/ ~ok)
              ELSE UNCHANGED <<requests, err>>
    /\ pc' = "modified"
    /\ UNCHANGED <<fdw, client, scan_result, args, loc, request_cnt, ch,
                   fetched, delivered, answers, iter_err, ret, attempts, sess, page, conv, row_out, scan_no>>

(* the loop of update over new_row.iter(): the "col = value" items of the *)
(* SET list, as (column, value text) pairs                                 *)
RECURSIVE update_sets(_, _, _, _)
update_sets(cols, cells, rowid_col, sets) ==
    IF cols = <<>> THEN sets
    ELSE LET col == Head(cols)
             cell == cells[col]
         IN  IF col = rowid_col
             THEN update_sets(Tail(cols), cells, rowid_col, sets)
             ELSE IF cell /= None
             THEN update_sets(Tail(cols), cells, rowid_col,
                              Append(sets, <<col, cell_to_string(cell[1])>>))
             ELSE update_sets(Tail(cols), cells, rowid_col,
                              Append(sets, <<col, "null">>))

(* update; ok: whether client.execute(&sql) succeeds *)
ClickHouseUpdate(rowid, new_row, ok) ==
    /\ fdw = "clickhouse"
    /\ pc = "modify"
    /\ LET sets == update_sets(new_row.cols, new_row.cells, ch.rowid_col, <<>>)
       IN  /\ ins' = [call |-> "update", src |-> Some(new_row), obj |-> ch.table.name,
                      rowid |-> cell_to_string(rowid), body |-> JsonNull,
                      block |-> IF ch.client /= None THEN sets ELSE <<>>]
           /\ IF ch.client /= None
              THEN /\ requests' = Append(requests,
                                     << <<"alter table", ch.table.name>>,
                                        <<"update", sets>>,
                                        <<"where", ch.rowid_col, cell_to_string(rowid)>> >>)
                   /\ err' = (err \/ ~ok)
              ELSE UNCHANGED <<requests, err>>
    /\ pc' = "modified"
    /\ UNCHANGED <<fdw, client, scan_result, args, loc, request_cnt, ch,
                   fetched, delivered, answers, iter_err, ret, attempts, sess, page, conv, row_out, scan_no>>

----------------------------------------------------------------------------
(* One session with the retry layer of its client: every transport call   *)
(* of begin_scan, insert and update of StripeFdw and AirtableFdw is a      *)
(* sequence of attempts, and the call returns the outcome of the last      *)
(* one.  A ClickHouse session runs begin_modify and insert or update.      *)

SessionStripeScan ==
    /\ fdw = "stripe" /\ pc = "new"
    /\ \E quals \in { <<>>, <<Qual("id", "=", StrCell("acct_123"), FALSE)>>,
                       <<Qual("active", "=", BoolCell("true"), FALSE),
                         Qual("currency", "<", StrCell("usd"), FALSE)>>,
                       <<Qual("created", "=", TimestampCell("1700000000"), FALSE)>> },
          limit \in { None, Some(Limit(10, 5)) },
          object \in { Some("accounts"), Some("customers"), Some("shipping_rates") } :
          StripeBeginScan(quals, limit, object)

SessionStripePage ==
    /\ fdw = "stripe" /\ pc = "loop"
    /\ Returned
    /\ \E resp \in Failures \cup StripeListAnswers(Len(fetched))
                   \cup { StripeObjectAnswer(Len(fetched)) } :
          /\ resp.status = attempts[Len(attempts)].status
          /\ Len(resp.records) <= 5
          /\ StripeFetchPage(resp)

SessionAirtableScan ==
    /\ fdw = "airtable" /\ pc = "new"
    /\ AirtableBeginScan(<<>>, None, [base_id |-> Some("app1"), table_id |-> Some("tbl1")])

SessionAirtablePage ==
    /\ fdw = "airtable" /\ pc = "loop"
    /\ Returned
    /\ \E resp \in AirtableAnswers(Len(fetched), ToString(Len(requests) + 1)) :
          /\ resp.status = attempts[Len(attempts)].status
          /\ Len(resp.records) <= 5
          /\ AirtableFetchPage(resp)

SessionAttempt ==
    /\ pc \in {"loop", "insert", "update"}
    /\ \E status \in AttemptStatuses :
          /\ (fdw = "airtable" => status /= 404)
          /\ RetryTransientAttempt(status)

SessionInsert ==
    /\ fdw = "stripe" /\ pc = "new"
    /\ \E src \in InsertRows, object \in { Some("charges") } :
          StripeInsertBegin(src, object)

SessionUpdate ==
    /\ fdw = "stripe" /\ pc = "new"
    /\ \E new_row \in InsertRows, object \in { Some("charges") } :
          StripeUpdateBegin("ch_1", new_row, object)

SessionClickHouseModify ==
    /\ fdw = "clickhouse" /\ pc = "new"
    /\ \E table \in { None, Some("test_table") }, rowid_col \in { None, Some("id") },
          connected \in BOOLEAN :
          ClickHouseBeginModify(table, rowid_col, connected)

SessionClickHouseInsert ==
    /\ fdw = "clickhouse" /\ pc = "modify"
    /\ \E src \in ChInsertRows, ok \in BOOLEAN :
          ClickHouseInsert(src, ok)

SessionClickHouseUpdate ==
    /\ fdw = "clickhouse" /\ pc = "modify"
    /\ \E new_row \in { r \in ChInsertRows : r.cells["data"] = None }, ok \in BOOLEAN :
          ClickHouseUpdate(I64Cell("1"), new_row, ok)

InitSession ==
    /\ Init
    /\ fdw = "clickhouse" \/ client /= None

NextSession ==
    \/ SessionStripeScan
    \/ SessionStripePage
    \/ SessionAirtableScan
    \/ SessionAirtablePage
    \/ SessionAttempt
    \/ SessionInsert
    \/ StripeInsertEnd
    \/ SessionUpdate
    \/ StripeUpdateEnd
    \/ SessionClickHouseModify
    \/ SessionClickHouseInsert
    \/ SessionClickHouseUpdate
    \/ IterScan
    \/ EndScan

SpecSession == InitSession /\ [][NextSession]_vars

----------------------------------------------------------------------------
(* Two Stripe sessions (backends) that run one call each; the calls read   *)
(* the persisted stats metadata, count their requests on their own copy    *)
(* and write the copy back.                                                *)

StripeCalls == {"begin_scan", "insert", "update", "delete"}

(* let mut stats_metadata = get_stats_metadata(); *)
SharedGet(s, call) ==
    /\ sess[s].pc = "idle"
    /\ sess' = [sess EXCEPT ![s] = [pc |-> "called", call |-> call,
                                    stats_metadata |-> request_cnt,
                                    issued |-> 0, failed |-> FALSE]]
    /\ UNCHANGED request_cnt

(* inc_stats_request_cnt(&mut stats_metadata) and the transport call; a    *)
(* failed call ends in report_request_error!, which returns                *)
SharedRequest(s, ok) ==
    /\ sess[s].pc = "called"
    /\ IF sess[s].call = "begin_scan" THEN sess[s].issued < MaxRequests
       ELSE sess[s].issued = 0
    /\ sess' = [sess EXCEPT ![s].stats_metadata = inc_stats_request_cnt(@),
                            ![s].issued = @ + 1,
                            ![s].failed = ~ok,
                            ![s].pc = IF ok THEN "called" ELSE "returned"]
    /\ UNCHANGED request_cnt

(* set_stats_metadata(stats_metadata); *)
SharedSet(s) ==
    /\ sess[s].pc = "called"
    /\ sess[s].issued >= 1
    /\ request_cnt' = sess[s].stats_metadata
    /\ sess' = [sess EXCEPT ![s].pc = "returned"]

(* what the calls of the sessions leave alone in this view *)
SharedFrame ==
    UNCHANGED <<fdw, pc, client, scan_result, args, loc, ch, requests, fetched,
                delivered, answers, err, iter_err, ret, attempts, ins, page, conv, row_out, scan_no>>

SharedCall ==
    /\ \E s \in Sessions, call \in StripeCalls : SharedGet(s, call)
    /\ SharedFrame
SharedSend ==
    /\ \E s \in Sessions, ok \in BOOLEAN : SharedRequest(s, ok)
    /\ SharedFrame
SharedSave ==
    /\ \E s \in Sessions : SharedSet(s)
    /\ SharedFrame

InitShared ==
    /\ Init
    /\ fdw = "stripe"
    /\ client /= None

NextShared ==
    \/ SharedCall
    \/ SharedSend
    \/ SharedSave

SpecShared == InitShared /\ [][NextShared]_vars

----------------------------------------------------------------------------
(* Properties *)

(* the rows still to be delivered by iter_scan *)
Remaining ==
    IF fdw = "clickhouse"
    THEN IF ch.scan_blk = None THEN <<>>
         ELSE SubSeq(ch.scan_blk[1].rows, ch.row_idx + 1, Len(ch.scan_blk[1].rows))
    ELSE IF scan_result = None THEN <<>> ELSE scan_result[1]

LimitCountZero == args.limit /= None /\ args.limit[1].count = 0

(* C1: after a successful begin_scan (Stripe, Airtable, ClickHouse) the    *)
(* rows delivered so far followed by the rows still buffered are the rows  *)
(* of all fetched pages in arrival order, and once iter_scan has returned  *)
(* end-of-data the delivered rows are exactly the fetched rows.            *)
C1_Original ==
    (pc = "scanned" /\ ~err) =>
        /\ delivered \o Remaining = fetched
        /\ (ret = "eod" => delivered = fetched)

(* C1, amended: the same, for the scans in which no iter_scan call has     *)
(* reported an error (ClickHouse iter_scan stops at a row that holds a     *)
(* column of unsupported type).                                            *)
C1_Delivery ==
    (pc = "scanned" /\ ~err /\ ~iter_err) =>
        /\ delivered \o Remaining = fetched
        /\ (ret = "eod" => delivered = fetched)

C1_Witness ==
    /\ fdw = "stripe" /\ pc = "scanned" /\ ~err
    /\ Len(requests) = 2 /\ Len(fetched) = 105
    /\ ret = "eod" /\ Len(delivered) = 105

(* C2: after a Stripe begin_scan with a limit of count 0, whatever the     *)
(* offset, no request has been sent, begin_scan is not in its fetch loop,  *)
(* and iter_scan has delivered no row.                                     *)
C2_CountZeroStripe ==
    (fdw = "stripe" /\ pc /= "new" /\ LimitCountZero) =>
        /\ pc /= "loop"
        /\ requests = <<>>
        /\ request_cnt = 0
        /\ delivered = <<>>
        /\ ret /= "row"

C2_Witness ==
    /\ fdw = "stripe" /\ pc = "scanned" /\ LimitCountZero
    /\ args.limit[1].offset = 10
    /\ client /= None /\ args.options = Some("customers")
    /\ ret = "eod"

(* C3: after a ClickHouse or Airtable begin_scan with a limit of count 0,  *)
(* no query or request has been sent and iter_scan has delivered no row.   *)
C3_CountZeroOthers ==
    (fdw \in {"clickhouse", "airtable"} /\ pc /= "new" /\ LimitCountZero) =>
        /\ requests = <<>>
        /\ delivered = <<>>
        /\ ret /= "row"

(* the answers before the last one are non-empty pages with has_more = true *)
AllMoreBeforeLast ==
    \A i \in 1..(Len(answers) - 1) :
        answers[i].status = 200 /\ answers[i].n > 0 /\ answers[i].has_more = Some(TRUE)

LastAnswer == answers[Len(answers)]

(* C4: in a Stripe scan without limit whose pages so far are non-empty     *)
(* with has_more = true, a non-empty page with has_more = false ends the   *)
(* loop at once with the rows of all pages buffered in order, and a        *)
(* non-empty page with has_more = true keeps the loop going; pages of 100  *)
(* and 5 rows give 2 requests and 105 rows.                                *)
C4_HasMoreFalseStops ==
    (fdw = "stripe" /\ args.limit = None /\ answers /= <<>> /\ AllMoreBeforeLast) =>
        /\ (LastAnswer.status = 200 /\ LastAnswer.n > 0 /\ LastAnswer.has_more = Some(FALSE)) =>
              /\ pc /= "loop"
              /\ ~err
              /\ Len(requests) = Len(answers)
              /\ (pc = "scanned" => delivered \o Remaining = fetched)
              /\ (Len(answers) = 1 => Len(requests) = 1)
              /\ (Len(answers) = 2 /\ answers[1].n = 100 /\ answers[2].n = 5) =>
                    /\ Len(requests) = 2
                    /\ (pc = "scanned" => Len(delivered) + Len(Remaining) = 105)
        /\ (LastAnswer.status = 200 /\ LastAnswer.n > 0 /\ LastAnswer.has_more = Some(TRUE)) =>
              /\ pc = "loop"
              /\ loc.result = fetched

C4_Witness ==
    /\ fdw = "stripe" /\ pc = "scanned" /\ args.limit = None
    /\ Len(answers) = 2
    /\ answers[1].n = 100 /\ answers[1].has_more = Some(TRUE)
    /\ answers[2].n = 5 /\ answers[2].has_more = Some(FALSE)
    /\ scan_result /= None /\ Len(scan_result[1]) = 105

(* exactly one qual: id = <scalar>, not OR-grouped *)
SingleIdEq(quals) ==
    /\ Len(quals) = 1
    /\ quals[1].field = "id" /\ quals[1].operator = "=" /\ ~quals[1].use_or
    /\ quals[1].value.t /= "Array"

PointRequest(r, obj, value) == r.path = <<"v1", obj, value>> /\ r.query = <<>>

(* C5: every request of a Stripe scan whose quals are exactly one qual     *)
(* id = <scalar of any cell type>, not OR-grouped, is a point lookup.      *)
C5_Original ==
    (fdw = "stripe" /\ SingleIdEq(args.quals)) =>
        \A i \in DOMAIN requests :
            PointRequest(requests[i], args.options[1], args.quals[1].value.v)

AcctQuals == <<Qual("id", "=", StrCell("acct_123"), FALSE)>>
AcctRequest == [path |-> <<"v1", "accounts", "acct_123">>, query |-> <<>>]

(* C6: for the single qual id = "acct_123" on object accounts every        *)
(* request is <base>/accounts/acct_123 without any query parameter,        *)
(* whatever the page size and the cursor given to the planner.             *)
C6_AccountLookup ==
    /\ (fdw = "stripe" /\ args.quals = AcctQuals /\ args.options = Some("accounts")) =>
            \A i \in DOMAIN requests : requests[i] = AcctRequest
    /\ \A ps \in {1, 50, 100}, cursor \in {None, Some("acct_9")} :
            build_url("accounts", AcctQuals, ps, cursor) = Some(AcctRequest)

C6_Witness ==
    /\ fdw = "stripe" /\ args.quals = AcctQuals /\ args.options = Some("accounts")
    /\ args.limit = Some(Limit(10, 5))
    /\ requests = <<AcctRequest>>

(* C7: when the remote answers 404 to a Stripe point lookup, begin_scan    *)
(* has returned without an error after that one request, the buffer is     *)
(* empty and iter_scan delivers no row.                                    *)
C7_NotFoundIsEmpty ==
    (/\ fdw = "stripe"
     /\ SingleIdEq(args.quals) /\ args.quals[1].value.t = "String"
     /\ answers /= <<>> /\ LastAnswer.status = 404) =>
        /\ pc /= "loop"
        /\ ~err
        /\ Len(requests) = 1
        /\ (pc = "scanned" => scan_result = Some(<<>>))
        /\ delivered = <<>>
        /\ ret /= "row"

C7_Witness ==
    /\ fdw = "stripe" /\ args.quals = AcctQuals
    /\ requests = <<AcctRequest>>
    /\ answers /= <<>> /\ LastAnswer.status = 404
    /\ pc = "scanned" /\ ret = "eod"

(* C8: a Stripe scan with a limit of count > 0 sends at most               *)
(* (offset + count) / 100 + 1 requests, whatever the remote answers; at    *)
(* most 1 for offset 10, count 5.                                          *)
C8_PageCeiling ==
    (fdw = "stripe" /\ args.limit /= None /\ args.limit[1].count > 0) =>
        /\ Len(requests) <= (args.limit[1].offset + args.limit[1].count) \div 100 + 1
        /\ (args.limit = Some(Limit(10, 5)) => Len(requests) <= 1)

C8_Witness ==
    /\ fdw = "stripe" /\ pc = "scanned" /\ args.limit = Some(Limit(10, 5))
    /\ Len(requests) = 1
    /\ answers[1].n = 100 /\ answers[1].has_more = Some(TRUE)
    /\ scan_result = Some(fetched)

RECURSIVE RowsBefore(_)
RowsBefore(i) == IF i <= 1 THEN 0 ELSE RowsBefore(i - 1) + answers[i - 1].n

(* C9: the ClickHouse query has no offset clause and its limit clause, if  *)
(* any, is offset + count; a Stripe request URL has no parameter but the   *)
(* pushed-down filters, limit = page size and starting_after = the id of   *)
(* the last record of the page before.                                     *)
C9_OffsetNotPushed ==
    /\ (fdw = "clickhouse" /\ requests /= <<>>) =>
          LET sql == requests[1] IN
          /\ \A i \in DOMAIN sql : sql[i][1] /= "offset"
          /\ \A i \in DOMAIN sql : sql[i][1] = "limit" =>
                 /\ args.limit /= None
                 /\ sql[i][2] = args.limit[1].offset + args.limit[1].count
          /\ args.limit /= None => \E i \in DOMAIN sql : sql[i][1] = "limit"
    /\ fdw = "stripe" =>
          \A i \in DOMAIN requests : \A j \in DOMAIN requests[i].query :
              LET p == requests[i].query[j] IN
              /\ p[1] \in {"email", "limit", "starting_after"}
              /\ p[1] = "limit" => p[2] = "100"
              /\ p[1] = "starting_after" => (i > 1 /\ p[2] = ToString(RowsBefore(i)))

C9_Witness ==
    /\ fdw = "clickhouse" /\ args.limit = Some(Limit(10, 5))
    /\ requests /= <<>>
    /\ requests[1][Len(requests[1])] = <<"limit", 15>>

(* C10: when a Stripe request fails (transport error or a non-success      *)
(* status other than 404), on any page, begin_scan has reported an error   *)
(* and returned, and no row of the scan is buffered or delivered.          *)
C10_ErrorAborts ==
    (fdw = "stripe" /\ answers /= <<>> /\ LastAnswer.status \in {0, 400, 500}) =>
        /\ pc /= "loop"
        /\ err
        /\ Len(requests) = Len(answers)
        /\ scan_result = None
        /\ delivered = <<>>
        /\ ret /= "row"

C10_Witness ==
    /\ fdw = "stripe" /\ Len(answers) = 2
    /\ answers[1].n = 100 /\ answers[2].status = 500
    /\ fetched /= <<>>
    /\ ret = "eod"

(* C11: once a request of an Airtable scan has failed (transport error or  *)
(* non-success status), begin_scan has reported an error and left its      *)
(* loop, that request was the last one, and no row of the scan is buffered *)
(* or delivered.                                                           *)
C11_AirtableErrorAborts ==
    (fdw = "airtable" /\ \E i \in DOMAIN answers : answers[i].status /= 200) =>
        /\ err
        /\ pc /= "loop"
        /\ \A i \in DOMAIN answers : answers[i].status /= 200 => i = Len(requests)
        /\ Remaining = <<>>
        /\ delivered = <<>>

(* the option that names the remote object of the scan is missing *)
TargetOptionMissing ==
    /\ pc /= "new"
    /\ IF fdw = "airtable"
       THEN args.options.base_id = None \/ args.options.table_id = None
       ELSE args.options = None

(* C13: after a begin_scan whose target option is missing (object for      *)
(* Stripe, table for ClickHouse, base_id or table_id for Airtable) no      *)
(* request or query has been sent, begin_scan has returned, no row is      *)
(* buffered and no iter_scan call has delivered a row.                     *)
C13_MissingOption ==
    TargetOptionMissing =>
        /\ pc /= "loop"
        /\ requests = <<>>
        /\ Remaining = <<>>
        /\ delivered = <<>>
        /\ ret /= "row"

C13_Witness ==
    /\ fdw = "airtable" /\ client /= None
    /\ pc = "scanned" /\ ret = "eod"
    /\ args.options.base_id /= None /\ args.options.table_id = None

(* C14: every iter_scan call of a Stripe or Airtable session on a          *)
(* non-empty buffer removes the front row, hands it to the caller and      *)
(* leaves the other rows in order; a call on an empty or absent buffer     *)
(* returns end-of-data and changes neither the buffer nor what was         *)
(* delivered.                                                              *)
C14_IterFrame ==
    [][ (fdw \in {"stripe", "airtable"} /\ pc \in {"scanned", "closed"} /\ pc' = pc) =>
            IF scan_result /= None /\ scan_result[1] /= <<>>
            THEN /\ ret' = "row"
                 /\ delivered' = Append(delivered, Head(scan_result[1]))
                 /\ scan_result' /= None
                 /\ Len(scan_result'[1]) = Len(scan_result[1]) - 1
                 /\ scan_result[1] = <<Head(scan_result[1])>> \o scan_result'[1]
            ELSE /\ ret' = "eod"
                 /\ scan_result' = scan_result
                 /\ delivered' = delivered ]_vars

C14_Witness ==
    /\ fdw = "airtable" /\ pc = "scanned"
    /\ Len(fetched) = 5 /\ delivered = fetched
    /\ scan_result = Some(<<>>) /\ ret = "eod"

(* C15: after end_scan no row is buffered, and every iter_scan call        *)
(* returns end-of-data and delivers nothing, whatever number of rows had   *)
(* been drained before (Stripe, Airtable and ClickHouse).                  *)
C15_EndScanDiscards ==
    /\ [](pc = "closed" => Remaining = <<>>)
    /\ [][ (pc = "closed" /\ pc' = "closed") =>
              (ret' = "eod" /\ delivered' = delivered) ]_vars

C15_Witness ==
    /\ fdw = "stripe" /\ pc = "closed"
    /\ Len(fetched) = 5 /\ Len(delivered) = 2
    /\ ret = "eod"

UnknownObject ==
    /\ fdw = "stripe" /\ pc /= "new"
    /\ args.options /= None
    /\ args.options[1] \notin {"accounts", "customers", "balance", "shipping_rates"}

(* C19: a Stripe begin_scan on an object that is not implemented sends no  *)
(* request, and once it has returned it has reported an error, the request *)
(* counter is as it was and no row is buffered or delivered.               *)
C19_Original ==
    UnknownObject =>
        /\ requests = <<>>
        /\ request_cnt = 0
        /\ scan_result = None
        /\ delivered = <<>>
        /\ (pc /= "loop" => err)

(* C19, amended: the same, for a session with a configured client and a    *)
(* limit whose count is not 0 (without client, or with count 0, begin_scan *)
(* returns before the object name is looked at and reports nothing).       *)
C19_UnknownObject ==
    (UnknownObject /\ client /= None /\ ~LimitCountZero) =>
        /\ requests = <<>>
        /\ request_cnt = 0
        /\ scan_result = None
        /\ delivered = <<>>
        /\ (pc /= "loop" => err)

C19_Witness ==
    /\ UnknownObject /\ client /= None /\ args.limit = Some(Limit(10, 5))
    /\ pc = "scanned" /\ err /\ ret = "eod"

(* the table option holds a placeholder without a qual on its field, or    *)
(* whose qual has an array value                                           *)
BadPlaceholder ==
    /\ fdw = "clickhouse" /\ pc /= "new"
    /\ args.options /= None
    /\ args.options[1].paren
    /\ \E i \in DOMAIN args.options[1].placeholders :
          LET q == find_qual(args.quals, args.options[1].placeholders[i])
          IN  q = None \/ ~IsCell(q[1].value)

(* C20: after a ClickHouse begin_scan on a table option with such a        *)
(* placeholder an error has been reported, no connection is open and no    *)
(* query has been sent.                                                    *)
C20_BadPlaceholderNoCall ==
    BadPlaceholder =>
        /\ err
        /\ ch.client = None
        /\ requests = <<>>

(* decoding the body of a row with body_to_rows, for the columns of the    *)
(* row, gives one row that has the cell of the original in every column    *)
(* whose cell is present                                                   *)
RoundTrip(row) ==
    LET body == row_to_body(row)
    IN  /\ ~body.null
        /\ LET r == object_to_row(body.map, ChargeCols, row.cols)
           IN  \A i \in DOMAIN row.cols :
                   row.cells[row.cols[i]] /= None =>
                       /\ \E j \in DOMAIN r.cols : r.cols[j] = row.cols[i]
                       /\ r.cells[row.cols[i]] = row.cells[row.cols[i]]

(* C12: the row handed to a Stripe insert, encoded by row_to_body and      *)
(* decoded by body_to_rows for the same columns, comes back equal on every *)
(* column whose cell is present.                                           *)
C12_RoundTrip == (fdw = "stripe" /\ ins.call = "insert") => RoundTrip(ins.src[1])

(* C16: when both Stripe sessions have returned from calls none of whose   *)
(* requests failed, the persisted request_cnt is its initial value (0)     *)
(* plus the number of requests the two sessions issued.                    *)
C16_NoLostUpdate ==
    (\A s \in Sessions : sess[s].pc = "returned" /\ ~sess[s].failed) =>
        request_cnt = sess[1].issued + sess[2].issued

(* C17: the POST of a Stripe insert call reaches the remote at most once,  *)
(* and a failed POST has been reported as an error once insert returned.   *)
C17_InsertAtMostOnce ==
    (fdw = "stripe" /\ ins.call = "insert" /\ attempts /= <<>>) =>
        /\ attempts[Len(attempts)].tries <= 1
        /\ (pc = "modified" /\ attempts[Len(attempts)].status /= 200) => err

(* the session runs a scan *)
ScanSession == fdw \in {"stripe", "airtable"} /\ ins.call = ""

(* C18: every transport call of a scan makes at most 4 attempts (3         *)
(* retries); begin_scan sees the outcome of the last attempt; when that is *)
(* a success for every call, no error is reported and the buffered rows    *)
(* are the rows of the answers, however many attempts failed before; an    *)
(* error is reported exactly when a call ends in a failure, which for a    *)
(* transient failure means all 4 attempts failed; and after a              *)
(* non-transient outcome or the fourth attempt no further attempt is made. *)
C18_BoundedRetry ==
    /\ [](ScanSession =>
            /\ \A i \in DOMAIN attempts : attempts[i].tries <= 4
            /\ \A i \in DOMAIN answers : answers[i].status = attempts[i].status
            /\ \A i \in DOMAIN answers :
                   answers[i].status \in {0, 500} => attempts[i].tries = 4
            /\ (err <=> \E i \in DOMAIN answers : answers[i].status \in {0, 400, 500})
            /\ (pc = "scanned" /\ ~err) => delivered \o Remaining = fetched)
    /\ [][ ScanSession =>
             \A i \in DOMAIN attempts :
                 (attempts[i].status \notin {0, 500} \/ attempts[i].tries = 4) =>
                     attempts'[i] = attempts[i] ]_vars

C18_Witness ==
    /\ fdw = "stripe" /\ pc = "scanned" /\ ~err
    /\ Len(attempts) = 2
    /\ attempts[1] = [tries |-> 4, status |-> 200]
    /\ attempts[2] = [tries |-> 2, status |-> 200]
    /\ Len(fetched) = 10 /\ ret = "eod" /\ delivered = fetched

----------------------------------------------------------------------------
(* The balance object *)

BalanceScan == fdw = "stripe" /\ pc /= "new" /\ args.options = Some("balance")
BalanceUrl == [path |-> <<"v1", "balance">>, query |-> <<>>]

----------------------------------------------------------------------------
(* Cursors *)

StartingAfter(url) == SelectSeq(url.query, LAMBDA p : p[1] = "starting_after")

----------------------------------------------------------------------------
(* ClickHouse: parameterised table queries *)

ParenQuery ==
    /\ fdw = "clickhouse"
    /\ requests /= <<>>
    /\ args.options /= None
    /\ args.options[1].paren

Consumed(field) == find_qual(args.quals, field) /= None

(* C25: in a parenthesised ClickHouse table query every ${field}          *)
(* placeholder is replaced by the text of the value of the qual on that    *)
(* field before the query is built; the consumed fields appear neither in  *)
(* the select list nor in the WHERE clause; a parenthesised query without  *)
(* placeholders is used verbatim as the FROM source.                       *)
C25_Placeholders ==
    ParenQuery =>
        LET table == args.options[1]
            sql == requests[1]
            tgts == sql[1][2]
            from == sql[2][2]
        IN  /\ sql[1][1] = "select" /\ sql[2][1] = "from"
            /\ from.name = table.name
            /\ Len(from.subst) = Len(table.placeholders)
            /\ table.placeholders = <<>> => from.subst = <<>>
            /\ \A i \in DOMAIN table.placeholders :
                   LET q == find_qual(args.quals, table.placeholders[i])
                   IN  (q /= None /\ IsCell(q[1].value)) =>
                           from.subst[i] = (IF q[1].value.t = "String"
                                            THEN "'" \o q[1].value.v \o "'"
                                            ELSE q[1].value.v)
            /\ \A i \in DOMAIN table.placeholders :
                   Consumed(table.placeholders[i]) =>
                       /\ \A k \in DOMAIN tgts : tgts[k] /= table.placeholders[i]
                       /\ \A c \in DOMAIN sql :
                              sql[c][1] = "where" =>
                                  \A k \in DOMAIN sql[c][2] :
                                      sql[c][2][k].field /= table.placeholders[i]

C25_Witness ==
    /\ ParenQuery
    /\ args.options[1].placeholders = <<"id">>
    /\ args.quals = << Qual("id", "=", StrCell("acct_123"), FALSE),
                       Qual("email", "=", StrCell("a@b.c"), FALSE) >>
    /\ ch.tgt_cols = <<"id", "name">>
    /\ requests[1][1] = <<"select", <<"name">>>>
    /\ requests[1][2][2].subst = <<"'acct_123'">>
    /\ requests[1][3][1] = "where"
    /\ Len(requests[1][3][2]) = 1

C25_WitnessVerbatim ==
    /\ ParenQuery
    /\ args.options[1].placeholders = <<>>
    /\ requests[1][2] = <<"from", [name |-> "(select * from test_table)", subst |-> <<>>]>>

----------------------------------------------------------------------------
(* OR-grouped quals *)

(* C24: no OR-grouped qual is ever pushed down: it adds no filter         *)
(* parameter to a Stripe URL, triggers no point-lookup rewrite, and adds   *)
(* no condition to the WHERE clause of a ClickHouse query.                 *)
C24_NoOrPushdown ==
    /\ (fdw = "stripe" /\ pc /= "new") =>
           \A k \in DOMAIN args.quals :
               args.quals[k].use_or =>
                   \A i \in DOMAIN requests :
                       /\ Len(args.quals) = 1 => Len(requests[i].path) = 2
                       /\ \A j \in DOMAIN requests[i].query :
                              requests[i].query[j][1] /= args.quals[k].field
    /\ (fdw = "clickhouse" /\ requests /= <<>>) =>
           \A c \in DOMAIN requests[1] :
               requests[1][c][1] = "where" =>
                   \A k \in DOMAIN requests[1][c][2] : ~requests[1][c][2][k].use_or

(* the Stripe half of C24, which the planner of StripeFdw satisfies *)
C24_StripeNoOrPushdown ==
    (fdw = "stripe" /\ pc /= "new") =>
        \A k \in DOMAIN args.quals :
            args.quals[k].use_or =>
                \A i \in DOMAIN requests :
                    /\ Len(args.quals) = 1 => Len(requests[i].path) = 2
                    /\ \A j \in DOMAIN requests[i].query :
                           requests[i].query[j][1] /= args.quals[k].field

----------------------------------------------------------------------------
(* The Airtable cursor *)

OffsetParams(url) == SelectSeq(url.query, LAMBDA p : p[1] = "offset")

(* C27: an Airtable scan follows the cursor of the server: the first      *)
(* request carries no offset; every later request carries exactly one      *)
(* offset, that of the response just before it; the loop stops exactly at  *)
(* the first response without an offset, with the rows of all pages        *)
(* buffered in order.                                                      *)
C27_AirtableCursor ==
    fdw = "airtable" =>
        /\ requests /= <<>> => OffsetParams(requests[1]) = <<>>
        /\ \A i \in DOMAIN requests :
               i > 1 =>
                   /\ answers[i - 1].offset /= None
                   /\ OffsetParams(requests[i])
                          = << <<"offset", answers[i - 1].offset[1]>> >>
        /\ \A i \in DOMAIN answers :
               answers[i].offset = None => (i = Len(answers) /\ pc /= "loop")
        /\ (pc = "scanned" /\ requests /= <<>>) => delivered \o Remaining = fetched

(* C27 restricted to the scans in which every response has status 200 *)
C27_AirtableCursorAllOk ==
    (fdw = "airtable" /\ \A i \in DOMAIN answers : answers[i].status = 200) =>
        /\ requests /= <<>> => OffsetParams(requests[1]) = <<>>
        /\ \A i \in DOMAIN requests :
               i > 1 =>
                   /\ answers[i - 1].offset /= None
                   /\ OffsetParams(requests[i])
                          = << <<"offset", answers[i - 1].offset[1]>> >>
        /\ \A i \in DOMAIN answers :
               answers[i].offset = None => (i = Len(answers) /\ pc /= "loop")
        /\ (pc = "scanned" /\ requests /= <<>>) => delivered \o Remaining = fetched

(* C28: in the Stripe and Airtable fetch loops a page with zero rows ends *)
(* the scan: no further request is issued, whatever has_more or offset     *)
(* the page carries.                                                       *)
C28_EmptyPageStops ==
    fdw \in {"stripe", "airtable"} =>
        \A i \in DOMAIN answers :
            (answers[i].status = 200 /\ answers[i].n = 0) =>
                (i = Len(answers) /\ pc /= "loop")

(* the Stripe half of C28 *)
C28_StripeEmptyPageStops ==
    fdw = "stripe" =>
        \A i \in DOMAIN answers :
            (answers[i].status = 200 /\ answers[i].n = 0) =>
                (i = Len(answers) /\ pc /= "loop")

----------------------------------------------------------------------------
(* SpecLive: the fetch loop of one begin_scan of StripeFdw or AirtableFdw  *)
(* run to its end.  begin_scan is a blocking call that the host does not   *)
(* interleave with anything else of the session, and every transport call  *)
(* returns, so a page step that is possible is eventually taken (weak      *)
(* fairness).  The remote is the one of Spec, except that its answer to    *)
(* the last request the bound allows is a terminating page or an error,    *)
(* which is how 'the remote eventually answers with a terminating page or  *)
(* an error' reads under a bound on the number of requests.  Where the     *)
(* loop is still running after that answer, its further iterations are     *)
(* steps too (LiveAirtableResend).                                         *)

(* a terminating page or an error: a non-success status, for Stripe a     *)
(* page without has_more = true or an empty page, for Airtable a response  *)
(* without offset                                                          *)
Terminating(answer) ==
    \/ answer.status /= 200
    \/ fdw = "stripe" /\ (answer.has_more /= Some(TRUE) \/ answer.n = 0)
    \/ fdw = "airtable" /\ answer.offset = None

LastRequest == Len(requests) = MaxRequests - 1

LiveStripePage ==
    /\ fdw = "stripe" /\ pc = "loop"
    /\ \E resp \in Failures \cup StripeListAnswers(Len(fetched))
                   \cup { StripeObjectAnswer(Len(fetched)), StripeBalanceAnswer(Len(fetched)) } :
          /\ LastRequest => Terminating(Answer(resp))
          /\ StripeFetchPage(resp)

LiveAirtablePage ==
    /\ fdw = "airtable" /\ pc = "loop"
    /\ \E resp \in AirtableAnswers(Len(fetched), ToString(Len(requests) + 1)) :
          /\ LastRequest => Terminating(Answer(resp))
          /\ AirtableFetchPage(resp)

(* the Airtable loop beyond the requests the observation keeps: it is     *)
(* still running after an error, sends the same request again, and the     *)
(* remote fails again; requests and answers keep the last MaxRequests      *)
LiveAirtableResend ==
    /\ fdw = "airtable" /\ pc = "loop"
    /\ Len(requests) = MaxRequests
    /\ answers[Len(answers)].status /= 200
    /\ \E resp \in { Failure(400), Failure(500), Failure(0) } :
          /\ requests' = Tail(requests) \o << set_limit_offset(loc.url, loc.offset) >>
          /\ answers' = Tail(answers) \o << Answer(resp) >>
    /\ err' = TRUE
    /\ UNCHANGED <<fdw, pc, client, scan_result, args, loc, request_cnt, ch,
                   fetched, delivered, iter_err, ret, attempts, ins, sess, page, conv, row_out, scan_no>>

InitLive == Init /\ fdw \in {"stripe", "airtable"}

NextLive ==
    \/ StripeScan
    \/ LiveStripePage
    \/ AirtableScan
    \/ LiveAirtablePage
    \/ LiveAirtableResend

SpecLive ==
    /\ InitLive
    /\ [][NextLive]_vars
    /\ WF_vars(LiveStripePage)
    /\ WF_vars(LiveAirtablePage)
    /\ WF_vars(LiveAirtableResend)

(* C22: every begin_scan eventually returns, with the full row set        *)
(* buffered or with an error reported, provided each transport call        *)
(* returns and the remote eventually answers with a terminating page or    *)
(* with an error.                                                          *)
C22_Termination ==
    (pc = "loop") ~> (pc = "scanned" /\ (err \/ scan_result = Some(fetched)))

(* C22 for the Stripe loop alone *)
C22_StripeTermination ==
    (fdw = "stripe" /\ pc = "loop")
        ~> (pc = "scanned" /\ (err \/ scan_result = Some(fetched)))

----------------------------------------------------------------------------
(* Filter pushdown on the Stripe list path *)

(* the qual is one the list path has to encode: pushable field, operator  *)
(* "=", a scalar value, not OR-grouped                                     *)
PushableQual(q, fields) ==
    /\ \E i \in DOMAIN fields : fields[i] = q.field
    /\ q.operator = "="
    /\ IsCell(q.value)
    /\ ~q.use_or

(* the query parameters of a URL that are not pagination parameters *)
Filters(url) == SelectSeq(url.query, LAMBDA p : p[1] \notin {"limit", "starting_after"})

ListRequests ==
    /\ fdw = "stripe" /\ pc /= "new"
    /\ ins.call = ""
    /\ args.options /= None
    /\ ObjectFields(args.options[1]) /= None

(* C23: on the Stripe list path every qual whose field is pushable for    *)
(* the object, whose operator is "=", whose value is a scalar of any cell  *)
(* type and which is not OR-grouped is encoded as the query parameter      *)
(* field=value; every other qual leaves the URL unchanged.                 *)
C23_FilterPushdown ==
    ListRequests =>
        LET fields == ObjectFields(args.options[1])[1]
            pushed == SelectSeq(args.quals, LAMBDA q : PushableQual(q, fields))
        IN  \A i \in DOMAIN requests :
                Len(requests[i].path) = 2 =>
                    Filters(requests[i])
                        = [k \in DOMAIN pushed |-> <<pushed[k].field, pushed[k].value.v>>]

(* C23 for the quals whose value is a boolean or a string *)
C23_BoolStringPushdown ==
    (ListRequests /\ \A k \in DOMAIN args.quals :
                         args.quals[k].value.t \in {"Bool", "String"}) =>
        LET fields == ObjectFields(args.options[1])[1]
            pushed == SelectSeq(args.quals, LAMBDA q : PushableQual(q, fields))
        IN  \A i \in DOMAIN requests :
                Len(requests[i].path) = 2 =>
                    Filters(requests[i])
                        = [k \in DOMAIN pushed |-> <<pushed[k].field, pushed[k].value.v>>]

(* a state in which the boolean qual is pushed and the "<" qual is not *)
C23_PushedState ==
    /\ ListRequests
    /\ args.options = Some("shipping_rates")
    /\ Len(args.quals) = 2
    /\ requests /= <<>>
    /\ Filters(requests[1]) = << <<"active", "true">> >>

----------------------------------------------------------------------------
(* Mutations of rows with a cell that cannot be encoded *)

Present(row, types) ==
    \E i \in DOMAIN row.cols :
        /\ row.cells[row.cols[i]] /= None
        /\ row.cells[row.cols[i]][1].t \notin types

(* row_to_body has no arm for the type of a present cell *)
StripeUnsupported(row) == Present(row, {"Bool", "I64", "F64", "String", "Json"})
(* ClickHouseFdw::insert has no arm for the type of a present cell *)
ClickHouseUnsupported(row) ==
    Present(row, {"Bool", "F64", "I64", "String", "Date", "Timestamp"})

(* C30: a mutation whose row holds a present cell of a type without       *)
(* encoding rule fails and sends no request: Stripe insert and update,     *)
(* ClickHouse insert.                                                      *)
C30_UnsupportedCellNoRequest ==
    /\ (fdw = "stripe" /\ ins.call \in {"insert", "update"}) =>
           (StripeUnsupported(ins.src[1]) =>
                pc = "modified" /\ err /\ requests = <<>> /\ attempts = <<>>)
    /\ (fdw = "clickhouse" /\ ins.call = "insert" /\ ch.client /= None) =>
           (ClickHouseUnsupported(ins.src[1]) => err /\ requests = <<>>)

(* the Stripe half of C30 *)
C30_StripeUnsupportedCellNoRequest ==
    (fdw = "stripe" /\ ins.call \in {"insert", "update"}) =>
        (StripeUnsupported(ins.src[1]) =>
             pc = "modified" /\ err /\ requests = <<>> /\ attempts = <<>>)

(* a Stripe update of a row with a timestamp cell has returned *)
C30_StripeUpdateState ==
    /\ fdw = "stripe" /\ ins.call = "update"
    /\ StripeUnsupported(ins.src[1])
    /\ pc = "modified" /\ err

----------------------------------------------------------------------------
(* SpecMapper: body_to_rows applied to the records of one page of the      *)
(* 'charges' object, for the target columns of the foreign table.          *)

(* bound on the number of records of a page *)
MaxPage == 2

(* records of a page: well formed; amount of the wrong JSON shape; created *)
(* missing; id and amount of the wrong shape and created missing; empty    *)
PageObjects ==
    { ("id" :> JsonString("ch_1")) @@ ("amount" :> JsonInt("500"))
          @@ ("created" :> JsonInt("1700000000")),
      ("id" :> JsonString("ch_2")) @@ ("amount" :> JsonString("500"))
          @@ ("created" :> JsonInt("1700000000")),
      ("id" :> JsonString("ch_3")) @@ ("amount" :> JsonInt("700")),
      ("id" :> JsonInt("7")) @@ ("amount" :> JsonFloat("1.5")),
      EmptyMap }

Pages == UNION { [1..n -> PageObjects] : n \in 0..MaxPage }

TgtCols == { <<"id">>, <<"id", "amount", "created">>,
             <<"attrs", "id", "amount", "created">>, <<"amount", "nosuch">> }

(* a slip: an object with a field that does not convert is skipped *)
page_to_rows_skip_bad(objs, normal_cols, tgt_cols) ==
    LET good == SelectSeq(objs,
                    LAMBDA o : \A i \in DOMAIN normal_cols :
                        /\ normal_cols[i][1] \in DOMAIN o
                        /\ json_to_cell(o[normal_cols[i][1]], normal_cols[i][2]) /= None)
    IN  [i \in DOMAIN good |-> object_to_row(good[i], normal_cols, tgt_cols)]

(* the loop 'for obj in objs' of body_to_rows: one row pushed per object *)
page_to_rows(objs, normal_cols, tgt_cols) ==
    [i \in DOMAIN objs |-> object_to_row(objs[i], normal_cols, tgt_cols)]

(* body_to_rows on the records 'objs' of a page *)
BodyToRows(objs, tgt_cols) ==
    /\ ~page.decoded
    /\ page' = [decoded |-> TRUE, objs |-> objs, tgt_cols |-> tgt_cols,
                rows |-> page_to_rows(objs, ChargeCols, tgt_cols)]
    /\ UNCHANGED <<fdw, pc, client, scan_result, args, loc, request_cnt, ch,
                   requests, fetched, delivered, answers, err, iter_err, ret,
                   attempts, ins, sess, conv, row_out, scan_no>>

MapperPage ==
    /\ ~page.decoded
    /\ \E objs \in Pages, tgt_cols \in TgtCols : BodyToRows(objs, tgt_cols)

InitMapper == Init /\ fdw = "stripe" /\ client /= None

NextMapper == MapperPage

SpecMapper == InitMapper /\ [][NextMapper]_vars

(* the JSON kinds that convert to a column type *)
Shapes(col_type) ==
    CASE col_type = "string" -> {"string"}
      [] col_type = "i64" -> {"int"}
      [] col_type = "timestamp" -> {"int"}

CellType(col_type) ==
    CASE col_type = "string" -> "String"
      [] col_type = "i64" -> "I64"
      [] col_type = "timestamp" -> "Timestamp"

(* C29: body_to_rows emits exactly one row per record of the page, in     *)
(* record order; a schema column whose field is missing from the record    *)
(* or has the wrong JSON shape yields an absent cell; neither the row nor  *)
(* the rest of the page is dropped.                                        *)
C29_RowPerRecord ==
    page.decoded =>
        /\ Len(page.rows) = Len(page.objs)
        /\ \A i \in DOMAIN page.objs :
               LET obj == page.objs[i]
                   row == page.rows[i]
               IN  \A j \in DOMAIN page.tgt_cols :
                       LET c == page.tgt_cols[j]
                           ty == find_col(ChargeCols, c)
                       IN  /\ ty /= None =>
                                 /\ c \in DOMAIN row.cells
                                 /\ IF c \in DOMAIN obj /\ obj[c].k \in Shapes(ty[1])
                                    THEN row.cells[c]
                                             = Some([t |-> CellType(ty[1]), v |-> obj[c].v])
                                    ELSE row.cells[c] = None
                           /\ c = "attrs" => row.cells[c] = Some(JsonCell(obj))

C29_Witness ==
    /\ page.decoded
    /\ Len(page.objs) = 2
    /\ page.tgt_cols = <<"id", "amount", "created">>
    /\ "amount" \in DOMAIN page.objs[1]
    /\ page.objs[1]["amount"] = JsonString("500")
    /\ page.rows[1].cells["amount"] = None
    /\ page.rows[1].cells["id"] = Some(StrCell("ch_2"))
    /\ page.rows[2].cells["amount"] = Some(I64Cell("500"))
    /\ page.rows[2].cells["created"] = Some(TimestampCell("1700000000"))

----------------------------------------------------------------------------
(* ClickHouse iter_scan on a column of an unsupported type *)

(* the block of the scan has rows, and a requested column that is not a   *)
(* consumed parameter has a type field_to_cell does not support            *)
BadColumn ==
    /\ fdw = "clickhouse"
    /\ ch.scan_blk /= None
    /\ ch.scan_blk[1].rows /= <<>>
    /\ \E i \in DOMAIN ch.tgt_cols :
           /\ find_qual(ch.params, ch.tgt_cols[i]) = None
           /\ ch.tgt_cols[i] \in ch.scan_blk[1].unsupported

(* C32: when a requested column of the current row has an unsupported     *)
(* type, ClickHouse iter_scan reports an error and returns end-of-data     *)
(* without advancing the row index: every iter_scan call of the scan       *)
(* returns end-of-data and no row at or after that row is delivered.       *)
C32_BadColumnEndsScan ==
    BadColumn =>
        /\ ch.row_idx = 0
        /\ delivered = <<>>
        /\ ret \in {"none", "eod"}
        /\ ret = "eod" => iter_err

C32_Witness ==
    /\ BadColumn
    /\ Len(ch.scan_blk[1].rows) > 1
    /\ ret = "eod"
    /\ iter_err
    /\ ch.row_idx = 0

----------------------------------------------------------------------------
(* Ends of the Stripe fetch loop *)

(* C36: a successful Stripe response without has_more flag (the single    *)
(* object of a point lookup, the balance object, a list without the flag)  *)
(* ends the scan after that page: its rows are buffered and no further     *)
(* request is issued; a point-lookup scan issues exactly one request.      *)
C36_NoFlagEndsScan ==
    fdw = "stripe" =>
        /\ \A i \in DOMAIN answers :
               (answers[i].status = 200 /\ answers[i].has_more = None) =>
                   /\ i = Len(answers)
                   /\ pc /= "loop"
                   /\ ~err
                   /\ pc = "scanned" => delivered \o Remaining = fetched
        /\ \A i \in DOMAIN requests : Len(requests[i].path) = 3 => Len(requests) = 1

C36_Witness ==
    /\ fdw = "stripe"
    /\ pc = "scanned"
    /\ Len(requests) = 1
    /\ Len(requests[1].path) = 2
    /\ requests[1].path[2] = "customers"
    /\ answers[1].status = 200
    /\ answers[1].has_more = None
    /\ answers[1].n = 100
    /\ Len(Remaining) = 100

(* a point lookup answered with its single object *)
C36_PointLookupState ==
    /\ fdw = "stripe"
    /\ pc = "scanned"
    /\ Len(requests) = 1
    /\ Len(requests[1].path) = 3
    /\ answers[1].status = 200
    /\ Len(Remaining) = 1

(* C37: a 404 response on any page of a Stripe scan ends the scan without *)
(* an error: on page k > 1 the rows of pages 1..k-1 are buffered and       *)
(* delivered, and the request counter including the 404 request is         *)
(* persisted.                                                              *)
C37_NotFoundAnyPage ==
    fdw = "stripe" =>
        \A i \in DOMAIN answers :
            answers[i].status = 404 =>
                /\ i = Len(answers)
                /\ pc \in {"scanned", "closed"}
                /\ ~err
                /\ request_cnt = Len(requests)
                /\ Len(fetched) = RowsBefore(i)
                /\ pc = "scanned" => delivered \o Remaining = fetched

C37_Witness ==
    /\ fdw = "stripe"
    /\ pc = "scanned"
    /\ Len(answers) = 2
    /\ answers[2].status = 404
    /\ answers[1].n = 5
    /\ request_cnt = 2
    /\ Len(delivered) = 5
    /\ ret = "eod"
    /\ ~err

(* the last answer shows that the remote has no row after those fetched *)
Exhausted ==
    /\ answers /= <<>>
    /\ \/ answers[Len(answers)].n = 0
       \/ answers[Len(answers)].has_more /= Some(TRUE)

(* a begin_scan with a limit has run to the statement that stores its    *)
(* result, every response was successful and every page followed by more   *)
(* held page_size rows                                                     *)
FullPagesScan ==
    /\ fdw = "stripe"
    /\ pc = "scanned"
    /\ ~err
    /\ scan_result /= None
    /\ args.limit /= None
    /\ \A i \in DOMAIN answers :
           /\ answers[i].status = 200
           /\ answers[i].has_more = Some(TRUE) => answers[i].n = page_size

(* C38: the page ceiling never cuts off needed rows: when every page      *)
(* with has_more = true holds exactly 100 rows, the buffer after a         *)
(* successful Stripe begin_scan with limit (offset, count), count > 0,     *)
(* holds at least min(offset + count, number of remote rows) rows.         *)
C38_CeilingKeepsRows ==
    (FullPagesScan /\ args.limit[1].count > 0) =>
        /\ delivered \o Remaining = fetched
        /\ Exhausted \/ Len(delivered \o Remaining)
                          >= args.limit[1].offset + args.limit[1].count

(* the ceiling of two pages stops a scan whose remote has more rows *)
C38_Witness ==
    /\ FullPagesScan
    /\ args.limit[1] = Limit(95, 5)
    /\ Len(answers) = 2
    /\ ~Exhausted
    /\ delivered = <<>>
    /\ Len(Remaining) = 200

----------------------------------------------------------------------------
(* The persisted request counter of a Stripe session *)

(* C33: the Stripe request counter is monotonic and exact within one      *)
(* session: after every call, including a call that ends in a request      *)
(* error, the persisted request_cnt is its value before the call (0) plus  *)
(* the number of requests the call issued.                                 *)
C33_ExactCounter ==
    (fdw = "stripe" /\ pc \in {"scanned", "closed"}) => request_cnt = Len(requests)

(* C33, the part that holds: the counter is exact after a call none of    *)
(* whose requests failed                                                   *)
C33_ExactWithoutError ==
    (fdw = "stripe" /\ pc \in {"scanned", "closed"} /\ ~err) => request_cnt = Len(requests)

(* C33, the part that holds: the persisted counter never decreases *)
C33_Monotonic == [][request_cnt' >= request_cnt]_vars

(* a scan whose second request failed: two requests issued, none counted *)
C33_LostCount ==
    /\ fdw = "stripe"
    /\ pc = "scanned"
    /\ err
    /\ Len(requests) = 2
    /\ request_cnt = 0

----------------------------------------------------------------------------
(* Absent cells in the payload of a mutation *)

(* the columns of a row whose cell is absent *)
AbsentCols(row) == { row.cols[i] : i \in { j \in DOMAIN row.cols : row.cells[row.cols[j]] = None } }

(* the keys of the passthrough object of a row, merged into the body *)
AttrsKeys(row) ==
    IF \E i \in DOMAIN row.cols : row.cols[i] = "attrs" /\ row.cells["attrs"] /= None
    THEN DOMAIN row.cells["attrs"][1].v
    ELSE {}

(* no entry of the Stripe body for an absent column, other than a key of   *)
(* the passthrough object                                                  *)
StripeBodyDropsAbsent ==
    (fdw = "stripe" /\ ins.call \in {"insert", "update"}) =>
        (DOMAIN ins.body.map) \cap (AbsentCols(ins.src[1]) \ AttrsKeys(ins.src[1])) = {}

(* no entry of the ClickHouse payload of the given call for an absent column *)
ClickHouseDropsAbsent(call) ==
    (fdw = "clickhouse" /\ ins.call = call) =>
        \A i \in DOMAIN ins.block : ins.block[i][1] \notin AbsentCols(ins.src[1])

(* C31: every mutation payload built from a Row drops the row's absent    *)
(* cells: the Stripe insert/update body, the ClickHouse insert block and   *)
(* the SET list of the ClickHouse update statement have no entry for a     *)
(* column whose cell is absent.                                            *)
C31_PayloadDropsAbsent ==
    /\ StripeBodyDropsAbsent
    /\ ClickHouseDropsAbsent("insert")
    /\ ClickHouseDropsAbsent("update")

(* C31, the part that holds: the Stripe body and the ClickHouse insert    *)
(* block have no entry for an absent column                                *)
C31_InsertDropsAbsent ==
    /\ StripeBodyDropsAbsent
    /\ ClickHouseDropsAbsent("insert")

(* an update of a row whose name is absent sets name = null *)
C31_UpdateSetsNull ==
    /\ fdw = "clickhouse"
    /\ ins.call = "update"
    /\ ch.client /= None
    /\ ins.src[1].cells["name"] = None
    /\ \E i \in DOMAIN ins.block : ins.block[i] = <<"name", "null">>

----------------------------------------------------------------------------
(* Several scans on one instance: the host calls begin_scan again on the   *)
(* session, after end_scan or without it, and the wrapper object keeps the  *)
(* fields the earlier scan left.                                            *)

(* Bound of the model: begin_scan calls on one instance *)
MaxScans == 2

(* the host is about to call begin_scan once more on the instance *)
Rescan ==
    /\ pc \in {"scanned", "closed"}
    /\ scan_no < MaxScans
    /\ pc' = "new"
    /\ scan_no' = scan_no + 1
    /\ UNCHANGED <<fdw, client, scan_result, args, loc, request_cnt, requests, fetched,
                   delivered, answers, ch, err, iter_err, ret, attempts, ins, sess,
                   page, conv, row_out>>

RescanStripeScan ==
    /\ fdw = "stripe" /\ pc = "new"
    /\ \E limit \in { Some(Limit(0, 0)), Some(Limit(10, 5)) },
          object \in { None, Some("customers"), Some("nosuch") } :
          StripeBeginScan(<<>>, limit, object)

RescanStripePage ==
    /\ fdw = "stripe" /\ pc = "loop"
    /\ \E resp \in Failures \cup StripeListAnswers(Len(fetched)) :
          /\ Len(resp.records) <= 5
          /\ StripeFetchPage(resp)

RescanAirtableScan ==
    /\ fdw = "airtable" /\ pc = "new"
    /\ \E options \in { [base_id |-> Some("app1"), table_id |-> Some("tbl1")],
                        [base_id |-> None, table_id |-> Some("tbl1")] } :
          AirtableBeginScan(<<>>, None, options)

RescanAirtablePage ==
    /\ fdw = "airtable" /\ pc = "loop"
    /\ \E resp \in AirtableAnswers(Len(fetched), ToString(Len(requests) + 1)) :
          /\ Len(resp.records) <= 5
          /\ AirtableFetchPage(resp)

RescanClickHouseScan ==
    /\ fdw = "clickhouse" /\ pc = "new"
    /\ \E quals \in { <<Qual("id", "=", StrCell("acct_1"), FALSE)>>,
                       <<Qual("id", "=", StrCell("acct_2"), FALSE)>> },
          table \in { t \in ChTables : t = None \/ ~t[1].paren \/ t[1].placeholders /= <<>> },
          connected \in BOOLEAN, answer \in ClickHouseAnswers :
          ClickHouseBeginScan(quals, <<"id", "name">>, <<>>, None, table, connected, answer)

NextRescan ==
    \/ RescanStripeScan
    \/ RescanStripePage
    \/ RescanAirtableScan
    \/ RescanAirtablePage
    \/ IterScan
    \/ EndScan
    \/ RescanClickHouseScan
    \/ ClickHouseIterScan
    \/ ClickHouseEndScan
    \/ Rescan

SpecRescan == Init /\ [][NextRescan]_vars

(* the rows delivered since the last begin_scan are the first rows that    *)
(* begin_scan fetched                                                      *)
DeliveredFetched ==
    /\ Len(delivered) <= Len(fetched)
    /\ \A i \in DOMAIN delivered : delivered[i] = fetched[i]

(* C34: every row returned by iter_scan was fetched by the most recent     *)
(* begin_scan of the session: a begin_scan that returns early never leaves  *)
(* rows of an earlier scan deliverable.                                     *)
C34_RowsOfLastScan == DeliveredFetched

(* C34, the part that holds: the rows the first scan of a session delivers *)
(* are rows it fetched                                                     *)
C34_FirstScan == scan_no = 1 => DeliveredFetched

(* a second Stripe begin_scan returned on a limit of count 0 and iter_scan *)
(* delivered a row of the first scan                                       *)
C34_StaleRow ==
    /\ fdw = "stripe"
    /\ scan_no = 2
    /\ pc = "scanned"
    /\ args.limit = Some(Limit(0, 0))
    /\ requests = <<>>
    /\ ret = "row"
    /\ delivered /= <<>>

----------------------------------------------------------------------------
(* ClickHouse: the template parameters of several scans *)

(* the fields the template of the last begin_scan consumed: its            *)
(* placeholders that have a qual in the quals of that call                  *)
OwnConsumed ==
    IF args.options = None \/ ~args.options[1].paren THEN {}
    ELSE { args.options[1].placeholders[i] :
               i \in { j \in DOMAIN args.options[1].placeholders :
                           find_qual(args.quals, args.options[1].placeholders[j]) /= None } }

(* a ClickHouse begin_scan has sent its query *)
ChQuerySent ==
    /\ fdw = "clickhouse"
    /\ pc \in {"scanned", "closed"}
    /\ args.options /= None
    /\ requests /= <<>>

(* iter_scan has returned a row of the block the last begin_scan fetched *)
ChRowReturned ==
    /\ ChQuerySent
    /\ fetched /= <<>>
    /\ ret = "row"

(* the select list of the query leaves out the fields the scan's own       *)
(* template consumed, and only those                                       *)
OwnSelectList ==
    requests[1][1] = <<"select", IF ch.tgt_cols = <<>> THEN <<"*">>
                                 ELSE SelectSeq(ch.tgt_cols, LAMBDA c : c \notin OwnConsumed)>>

(* the row iter_scan returned has, in each column the scan's template      *)
(* consumed, the value of the scan's qual on it, and in every other column  *)
(* the cell of the block                                                    *)
OwnRow ==
    /\ Len(row_out) = Len(ch.tgt_cols)
    /\ \A i \in DOMAIN row_out :
           /\ row_out[i][1] = ch.tgt_cols[i]
           /\ row_out[i][2] = IF ch.tgt_cols[i] \in OwnConsumed
                              THEN find_qual(args.quals, ch.tgt_cols[i])[1].value
                              ELSE [t |-> "Column", v |-> ch.tgt_cols[i]]

(* C35: in a ClickHouse session the fields treated as consumed template   *)
(* parameters, and the value iter_scan returns for such a column, are      *)
(* those of the most recent begin_scan: each scan's query excludes only    *)
(* the fields its own template consumed and each scan's rows carry that    *)
(* scan's qual value.                                                      *)
C35_ParamsOfLastScan ==
    /\ ChQuerySent => OwnSelectList
    /\ ChRowReturned => OwnRow

(* C35, the part that holds: the first scan of a session *)
C35_FirstScan ==
    scan_no = 1 =>
        /\ ChQuerySent => OwnSelectList
        /\ ChRowReturned => OwnRow

(* the first scan of a session returns a row with the value of its qual *)
C35_FirstScanRow ==
    /\ ChRowReturned
    /\ scan_no = 1
    /\ OwnConsumed = {"id"}
    /\ row_out = << <<"id", StrCell("acct_1")>>, <<"name", [t |-> "Column", v |-> "name"]>> >>

(* a second scan with the qual value acct_2 returns a row that carries     *)
(* acct_1, the value of the first scan                                      *)
C35_StaleValue ==
    /\ ChRowReturned
    /\ scan_no = 2
    /\ OwnConsumed = {"id"}
    /\ args.quals[1].value = StrCell("acct_2")
    /\ row_out[1] = <<"id", StrCell("acct_1")>>

(* a second scan of a plain table leaves id out of its select list *)
C35_StaleConsumed ==
    /\ ChQuerySent
    /\ scan_no = 2
    /\ OwnConsumed = {}
    /\ requests[1][1] = <<"select", <<"name">>>>

----------------------------------------------------------------------------
(* ClickHouse: field_to_cell on values.  An integer of the remote is its    *)
(* bit pattern, a sequence of 16-bit limbs with the most significant one    *)
(* first (Int16 and UInt16: one limb, Int32 and UInt32: two, Int64 and      *)
(* UInt64: four); the cell of an integer holds the bit pattern of its Rust  *)
(* type.  A number is its sign and its magnitude on four limbs.             *)

Limb == 2^16
Patterns(n) == [1..n -> {0, 1, Limb \div 2 - 1, Limb \div 2, Limb - 1}]

SignedTypes == {"Int16", "Int32", "Int64"}
UnsignedTypes == {"UInt16", "UInt32", "UInt64"}

(* the values of a column of the given type *)
RemoteValues(sql_type) ==
    CASE sql_type = "UInt8" -> {0, 1, 2, 255}
      [] sql_type \in {"Int16", "UInt16"} -> Patterns(1)
      [] sql_type \in {"Int32", "UInt32"} -> Patterns(2)
      [] sql_type \in {"Int64", "UInt64"} -> Patterns(4)
      [] sql_type \in {"Float32", "Float64"} -> {"1.5"}
      [] sql_type = "String" -> {"test"}
      [] sql_type \in {"Date", "DateTime"} -> {0, 19358}
      [] OTHER -> {"x"}

(* an unsigned value 'as' a signed type of n limbs, n not less than the    *)
(* width of the value: the bits are kept and zeros fill the upper limbs     *)
zero_extend(bits, n) == [i \in 1..(n - Len(bits)) |-> 0] \o bits

(* the bit pattern plus one, on the same width *)
RECURSIVE add_one(_)
add_one(bits) ==
    IF bits = <<>> THEN <<>>
    ELSE LET front == SubSeq(bits, 1, Len(bits) - 1)
             last == bits[Len(bits)]
         IN  IF last < Limb - 1 THEN Append(front, last + 1)
             ELSE Append(add_one(front), 0)

(* the number a bit pattern stands for in an unsigned type *)
UnsignedNum(bits) == [neg |-> FALSE, mag |-> zero_extend(bits, 4)]

(* the number a bit pattern stands for in a signed type (two's complement) *)
SignedNum(bits) ==
    IF bits[1] >= Limb \div 2
    THEN [neg |-> TRUE,
          mag |-> zero_extend(add_one([i \in DOMAIN bits |-> Limb - 1 - bits[i]]), 4)]
    ELSE [neg |-> FALSE, mag |-> zero_extend(bits, 4)]

(* field_to_cell: the cell made of a value of the given column type, None  *)
(* after report_error for a type without arm.  A Date is the number of its  *)
(* days since the epoch, a DateTime the number of its seconds.              *)
field_to_cell_value(sql_type, value) ==
    CASE sql_type = "UInt8" -> Some([t |-> "Bool", v |-> value /= 0])
      [] sql_type = "Int16" -> Some([t |-> "I16", v |-> value])
      [] sql_type = "UInt16" -> Some([t |-> "I32", v |-> zero_extend(value, 2)])
      [] sql_type = "Int32" -> Some([t |-> "I32", v |-> value])
      [] sql_type = "UInt32" -> Some([t |-> "I64", v |-> zero_extend(value, 4)])
      [] sql_type = "Float32" -> Some([t |-> "F32", v |-> value])
      [] sql_type = "Float64" -> Some([t |-> "F64", v |-> value])
      [] sql_type = "UInt64" -> Some([t |-> "I64", v |-> zero_extend(value, 4)])
      [] sql_type = "Int64" -> Some([t |-> "I64", v |-> value])
      [] sql_type = "String" -> Some([t |-> "String", v |-> value])
      [] sql_type = "Date" -> Some([t |-> "Date", v |-> (value * 86400) \div 86400])
      [] sql_type = "DateTime" -> Some([t |-> "Timestamp", v |-> value])
      [] OTHER -> None

(* field_to_cell applied to a value of a column of the block *)
FieldToCell(sql_type, value) ==
    /\ fdw = "clickhouse"
    /\ ~conv.done
    /\ conv' = [done |-> TRUE, sql_type |-> sql_type, value |-> value,
                cell |-> field_to_cell_value(sql_type, value)]
    /\ UNCHANGED <<fdw, pc, client, scan_result, args, loc, request_cnt, requests,
                   fetched, delivered, answers, ch, err, iter_err, ret, attempts, ins,
                   sess, page, row_out, scan_no>>

CellConvert ==
    /\ pc = "new"
    /\ \E sql_type \in {"UInt8", "Float32", "Float64", "String", "Date", "DateTime", "Int8"}
                       \cup SignedTypes \cup UnsignedTypes :
       \E value \in RemoteValues(sql_type) :
          FieldToCell(sql_type, value)

SpecCell == Init /\ [][CellConvert]_vars

(* the number of the remote value that was converted *)
RemoteNum ==
    IF conv.sql_type \in SignedTypes THEN SignedNum(conv.value)
    ELSE UnsignedNum(conv.value)

(* the cell holds the same number as the remote value *)
SameNumber == conv.cell /= None /\ SignedNum(conv.cell[1].v) = RemoteNum

(* C39: field_to_cell preserves integer values: for a column of type       *)
(* Int16, UInt16, Int32, UInt32, Int64 or UInt64 the cell holds the same    *)
(* number as the remote value over the whole range of the type, and a       *)
(* UInt8 column yields Bool(value != 0).                                    *)
C39_IntegersPreserved ==
    conv.done =>
        /\ conv.sql_type \in SignedTypes \cup UnsignedTypes => SameNumber
        /\ conv.sql_type = "UInt8" =>
               conv.cell = Some([t |-> "Bool", v |-> conv.value /= 0])

(* C39, the part that holds: every integer type but UInt64, and UInt8 *)
C39_PreservedBelowUInt64 ==
    conv.done =>
        /\ conv.sql_type \in (SignedTypes \cup UnsignedTypes) \ {"UInt64"} => SameNumber
        /\ conv.sql_type = "UInt8" =>
               conv.cell = Some([t |-> "Bool", v |-> conv.value /= 0])

(* C39, the part that holds: UInt64 values below 2^63 *)
C39_UInt64LowerHalf ==
    (conv.done /\ conv.sql_type = "UInt64") =>
        (conv.value[1] < Limb \div 2 => SameNumber)

(* the UInt64 value 2^64 - 1 becomes the cell I64(-1) *)
C39_UInt64Wraps ==
    /\ conv.done
    /\ conv.sql_type = "UInt64"
    /\ conv.value = <<Limb - 1, Limb - 1, Limb - 1, Limb - 1>>
    /\ SignedNum(conv.cell[1].v) = [neg |-> TRUE, mag |-> <<0, 0, 0, 1>>]

====
